---- MODULE Spec2Model ----
(***************************************************************************)
(* A model of peppy_remote.py (foonerd/peppy_remote): the remote client of *)
(* the PeppyMeter screensaver.  Each component is a specification of its   *)
(* own over the variables it owns:                                         *)
(*   SpecResolve  parse_server_meter_state / setup_remote_config (pure)    *)
(*   SpecLevel    LevelReceiver._receive_loop against get_levels           *)
(*   Spec         ConfigVersionListener + the render thread of             *)
(*                run_peppymeter_display (the reconciliation checkpoint)   *)
(*   SpecSpectrum   SpectrumReceiver._receive_loop                         *)
(*   SpecDiscovery  ServerDiscovery.discover against stop                  *)
(*   SpecWatcher    ConfigVersionListener.run step by step, against        *)
(*                  stop_listener and the render thread's stores           *)
(*   SpecFetch      ConfigFetcher.fetch                                    *)
(*   SpecSmoother   RemoteSpectrumOutput.__init__, start and update        *)
(*   SpecPersist    PersistManager against its expiry timers               *)
(*   SpecLife       LevelReceiver.start, its two loops and stop            *)
(* SpecFair and SpecLifeFair are Spec and SpecLife with the fairness the   *)
(* threads' scheduling gives.                                               *)
(* Python's None and '' are both the empty string "" here: the code tests  *)
(* them by truthiness only.                                                *)
(***************************************************************************)
EXTENDS Integers, Sequences, FiniteSets, TLC

VARIABLES
    \* ---- SpecResolve: one call of the resolution functions
    rsIn,       \* the arguments of the call
    rsOut,      \* what parse_server_meter_state returned (<<folder, meter>>)
    rsSetup,    \* what setup_remote_config chose (<<folder, meter>>)
    rsPc,       \* "args" | "parsed" | "done"
    \* ---- SpecLevel: a LevelReceiver, its receive loop and one reader
    levelReceiver,  \* the object's fields: seq, left, right, mono, last_update
    rxPc,       \* the receive loop's position: "recv", or the next store
    rxData,     \* the datagram recvfrom returned last
    rxFrame,    \* what struct.unpack made of it
    rxCount,    \* datagrams delivered so far (the clock of last_update)
    rxBefore,   \* history: the fields as they were when rxData arrived
    rxAccepted, \* history: the (left, right, mono) of every frame unpacked
    rdPc,       \* get_levels: "idle", "right", "mono", "ret"
    rdLevels,   \* the tuple get_levels is building / has returned
    rdQuiet,    \* history: no frame was being stored during the call
    \* ---- Spec: the server, the listener, the render thread
    srv,            \* the server: its config version, config blob, active meter
    srvChanges,     \* how many times the server's state has changed
    client_override,    \* (display.meter_folder, display.meter), or NoOverride
    configFile,     \* the [current] section of the client's config.txt
    cached_version, \* ConfigFetcher.cached_version
    pm,             \* the pipeline's (METER_FOLDER, METER)
    current_version_holder, \* the belief
    reload_requested,               \* ConfigVersionListener's
    new_active_meter,               \* ConfigVersionListener's (the candidate)
    first_announcement_received,    \* ConfigVersionListener's
    reload_check_done,      \* _reload_check_done[0]
    reload_should_exit,     \* _reload_should_exit[0]: "None", "True", "False"
    pending_active_meter,   \* the display loop's local
    active_meter_override,  \* the local of the callback / of the loop
    resolved,       \* (new_meter_folder, new_chosen_meter) last resolved
    pc,             \* the render thread's position
    lastPoll,       \* history: how the last poll of the callback ended
    engine,         \* history: the last verdict since the display started
    signalFetches,  \* history: the callback's fetches for the request pending
    lastFetch,      \* history: how the last fetch() ended: "fail", "empty", "ok"
    built,          \* history: what built the pipeline, on which verdict
    \* ---- SpecSpectrum: a SpectrumReceiver and its receive loop
    spectrumReceiver,   \* the object's fields: seq, size, bins, last_update
    spRunning,  \* _running
    spPc,       \* the receive loop's position
    spData,     \* the datagram recvfrom returned last: source and payload
    spFrame,    \* what struct.unpack made of it
    spCount,    \* datagrams delivered so far (the clock of last_update)
    spBefore,   \* history: the fields as they were when spData arrived
    spAccepted, \* history: the datagrams that were unpacked
    \* ---- SpecDiscovery: one call of ServerDiscovery.discover
    servers,        \* self.servers: source address -> record
    discovery_stop, \* self._stop
    dsDeadline,     \* time.time() - start_time >= self.timeout
    dsPc,       \* "check", "recv", "close", "returned"
    dsCount,    \* datagrams delivered so far
    dsData,     \* the datagram recvfrom returned last
    dsBefore,   \* history: the map as it was when dsData arrived
    dsAnnounced,    \* history: the sources of the announcements received
    dsEnd,      \* history: what ended the loop: "deadline", "stop", "error"
    \* ---- SpecWatcher: ConfigVersionListener.run against stop_listener
    listener_stop,  \* self._stop
    listener_sock,  \* self._sock: "None" or "socket"
    wSockOpen,  \* the socket object is open
    wPc,        \* run()'s position
    wData,      \* the datagram recvfrom returned last
    wCount,     \* datagrams delivered so far
    wAnnouncements, \* history: announcements of the server received so far
    wRaised,    \* the exception that left run(), or "none"
    stPc,       \* stop_listener()'s position
    stRaised,   \* the exception that left stop_listener(), or "none"
    \* ---- SpecFetch: a ConfigFetcher and its calls of fetch()
    fetcher,    \* the object's fields, and ret: what the last call returned
    ftResponse, \* the response the last call got
    ftBefore,   \* history: the fields as they were before the last call
    ftCount,    \* calls made so far
    \* ---- SpecSmoother: a RemoteSpectrumOutput and its update() ticks
    smoother,   \* the object's fields: _local_bins, _prev_server_bins, _decay_rate
    smConfigured,   \* the decay rate of the client configuration
    smPc,       \* "none" | "constructed" | "started"
    smBins,     \* what get_bins() returned to the last tick that ran
    smChanged,  \* server_data_changed in that tick
    smBefore,   \* history: the fields as they were before that tick
    smFrames,   \* history: what get_bins() returned to each tick that ran
    smCount,    \* calls of update() so far
    \* ---- SpecPersist: a PersistManager, its callers and its timers
    persist,    \* the object's fields
    psFile,     \* /tmp/peppy_persist: <<>> or <<its content>>
    psTimers,   \* every threading.Timer made so far
    psPc,       \* the render thread's position inside the call
    psCall,     \* the call in progress, or the last one
    psBefore,   \* history: fields, file and timers when that call began
    psAfter,    \* history: fields, file and timers when it returned
    psCount,    \* calls of check_metadata_status so far
    psSettings, \* calls of update_settings so far
    psRaised,   \* the exception that left the last call, or "none"
    \* ---- SpecLife: a LevelReceiver from start() to stop()
    receiver,   \* the object's fields: sock, _running and the two threads
    lcStart,    \* start()'s position, "done" or "raised"
    lcHb,       \* the heartbeat loop's position, "none" before it starts
    lcRx,       \* the receive loop's position, "none" before it starts
    lcStop,     \* stop()'s position
    lcSent,     \* history: the types of the datagrams sent, in order
    lcBeats,    \* sleeps of the heartbeat loop so far
    lcStops,    \* calls of stop() so far
    lcRaised    \* the exception that left start(), or "none"

resolveVars == <<rsIn, rsOut, rsSetup, rsPc>>
levelVars == <<levelReceiver, rxPc, rxData, rxFrame, rxCount, rxBefore,
               rxAccepted, rdPc, rdLevels, rdQuiet>>
listenerVars == <<reload_requested, new_active_meter, first_announcement_received>>
memoVars == <<reload_check_done, reload_should_exit>>
clientVars == <<client_override, configFile, cached_version, pm,
                current_version_holder, listenerVars, memoVars,
                pending_active_meter, active_meter_override, resolved, pc>>
ghostVars == <<lastPoll, engine, signalFetches, lastFetch, built>>
reconVars == <<srv, srvChanges, clientVars, ghostVars>>
spectrumVars == <<spectrumReceiver, spRunning, spPc, spData, spFrame, spCount,
                  spBefore, spAccepted>>
discoveryVars == <<servers, discovery_stop, dsDeadline, dsPc, dsCount, dsData,
                   dsBefore, dsAnnounced, dsEnd>>
watcherVars == <<listener_stop, listener_sock, wSockOpen, wPc, wData, wCount,
                 wAnnouncements, wRaised, stPc, stRaised>>
fetchVars == <<fetcher, ftResponse, ftBefore, ftCount>>
smootherVars == <<smoother, smConfigured, smPc, smBins, smChanged, smBefore,
                  smFrames, smCount>>
persistVars == <<persist, psFile, psTimers, psPc, psCall, psBefore, psAfter,
                 psCount, psSettings, psRaised>>
lifeVars == <<receiver, lcStart, lcHb, lcRx, lcStop, lcSent, lcBeats, lcStops,
              lcRaised>>
vars == <<resolveVars, levelVars, reconVars, spectrumVars, discoveryVars,
          watcherVars, fetchVars,
    smootherVars, persistVars, lifeVars>>

\* What the actions of one component leave alone.
notResolve == <<levelVars, reconVars, spectrumVars, discoveryVars,
    watcherVars, fetchVars,
    smootherVars, persistVars, lifeVars>>
notLevel == <<resolveVars, reconVars, spectrumVars, discoveryVars,
    watcherVars, fetchVars,
    smootherVars, persistVars, lifeVars>>
notRecon == <<resolveVars, levelVars, spectrumVars, discoveryVars,
    watcherVars, fetchVars,
    smootherVars, persistVars, lifeVars>>
notSpectrum == <<resolveVars, levelVars, reconVars, discoveryVars,
    watcherVars, fetchVars,
    smootherVars, persistVars, lifeVars>>
notDiscovery == <<resolveVars, levelVars, reconVars, spectrumVars,
    watcherVars, fetchVars,
    smootherVars, persistVars, lifeVars>>
\* (the listener's actions store into variables of the render thread's)
notWatcher == <<resolveVars, levelVars, spectrumVars, discoveryVars,
    fetchVars,
    smootherVars, persistVars, lifeVars>>
notFetch == <<resolveVars, levelVars, reconVars, spectrumVars, discoveryVars,
    watcherVars,
    smootherVars, persistVars, lifeVars>>
notLife == <<resolveVars, levelVars, reconVars, spectrumVars,
    discoveryVars, watcherVars, fetchVars, smootherVars, persistVars>>
notPersist == <<resolveVars, levelVars, reconVars, spectrumVars,
    discoveryVars, watcherVars, fetchVars, smootherVars, lifeVars>>
notSmoother == <<resolveVars, levelVars, reconVars, spectrumVars,
    discoveryVars, watcherVars, fetchVars, persistVars, lifeVars>>

(***************************************************************************)
(* The templates directory: for each meter folder, its meters.txt.         *)
(*   kind "ok"         meters.txt exists and parses; sections are its      *)
(*                     section names                                       *)
(*   kind "missing"    the folder has no meters.txt                        *)
(*   kind "unreadable" meters.txt exists and configparser raises on it     *)
(***************************************************************************)
Folders == {"F1", "F2", "F3"}

Templates ==
    [f \in Folders |->
        CASE f = "F1" -> [kind |-> "ok", sections |-> {"m1", "m2"}]
          [] f = "F2" -> [kind |-> "missing", sections |-> {}]
          [] OTHER    -> [kind |-> "unreadable", sections |-> {}]]

\* os.path.exists(meters_file), with meters_file = '' for a blank folder.
MetersFileExists(templates, folder) ==
    /\ folder # ""
    /\ folder \in DOMAIN templates
    /\ templates[folder].kind # "missing"

(***************************************************************************)
(* A config blob (the text of config.txt) by what configparser makes of    *)
(* it:                                                                     *)
(*   kind "empty"      the empty string                                    *)
(*   kind "malformed"  read_file raises                                    *)
(*   kind "nocurrent"  parses, and has no [current] section                *)
(*   kind "ok"         has [current]; folder and meter are its meter.folder*)
(*                     and meter values ("" when the key is absent/blank)  *)
(***************************************************************************)
Blob(k, f, m) == [kind |-> k, folder |-> f, meter |-> m]

NoOverride == <<"", "">>

\* The else-branch of the validation (lines 2490-2491, 2611-2614).
RejectedCandidateBad(meter_value, candidate) ==
    IF meter_value # "" THEN meter_value ELSE "random"

RejectedCandidate(meter_value, candidate) ==
    IF meter_value # "" /\ meter_value # candidate THEN meter_value ELSE "random"

\* TRUE when the candidate (active_meter_override) ends as chosen_meter:
\* it is a section of meters.txt, or there is no meters.txt to check it
\* against, or reading meters.txt raised ("try anyway").
CandidateAccepted(templates, folder, candidate) ==
    IF MetersFileExists(templates, folder)
    THEN IF templates[folder].kind = "ok"
         THEN candidate \in templates[folder].sections
         ELSE TRUE
    ELSE TRUE

\* chosen_meter of lines 2481-2501 and 2598-2632.
ChosenMeter(templates, folder, meter_value, candidate) ==
    IF candidate # ""
    THEN IF CandidateAccepted(templates, folder, candidate)
         THEN candidate
         ELSE RejectedCandidate(meter_value, candidate)
    ELSE IF meter_value = "" /\ folder # "" THEN folder
    ELSE IF meter_value = "" THEN "random"
    ELSE meter_value

\* "x or y or 'random'"
OrElse(x, y) == IF x # "" THEN x ELSE y

parse_server_meter_state(config_content, templates, candidate_meter, client_theme_override) ==
    IF client_theme_override[1] # "" /\ client_theme_override[2] # ""
    THEN client_theme_override
    ELSE IF config_content.kind # "ok"
    THEN <<"", "random">>
    ELSE LET meter_folder == config_content.folder
             chosen == ChosenMeter(templates, meter_folder, config_content.meter,
                                   candidate_meter)
         IN  <<meter_folder, OrElse(chosen, OrElse(meter_folder, "random"))>>

(***************************************************************************)
(* setup_remote_config, lines 2579-2681: the (folder, meter) it writes to  *)
(* config.txt and returns, from the config.txt it read (file: the folder   *)
(* and meter of its [current] section, "" when absent).                    *)
(***************************************************************************)
SetupChoice(file, templates, candidate_meter, client_theme_override) ==
    IF client_theme_override[1] # "" /\ client_theme_override[2] # ""
    THEN client_theme_override
    ELSE LET chosen == ChosenMeter(templates, file.folder, file.meter,
                                   candidate_meter)
         IN  <<file.folder, OrElse(chosen, OrElse(file.folder, "random"))>>

\* config.read(config_path) on what was written there: a blob that does not
\* parse, or has no [current], gives an empty [current] section.
ReadConfigFile(content) ==
    IF content.kind = "ok"
    THEN [folder |-> content.folder, meter |-> content.meter]
    ELSE [folder |-> "", meter |-> ""]

----------------------------------------------------------------------------
(***************************************************************************)
(* SpecResolve: the resolution functions on every argument tuple of a      *)
(* bounded domain.                                                         *)
(***************************************************************************)
BlobFolders == Folders \cup {""}
BlobMeters == {"", "m1", "m3", "random"}
Candidates == {"", "m1", "m3"}
Overrides == {NoOverride, <<"F2", "m2">>}

Blobs ==
    {Blob("empty", "", ""), Blob("malformed", "", ""), Blob("nocurrent", "", "")}
    \cup {Blob("ok", f, m) : f \in BlobFolders, m \in BlobMeters}

ResolveIdle ==
    /\ rsIn = [content |-> Blob("empty", "", ""), candidate |-> "",
               override |-> NoOverride]
    /\ rsOut = <<"", "">>
    /\ rsSetup = <<"", "">>
    /\ rsPc = "done"

ResolveStart ==
    /\ rsIn \in [content : Blobs, candidate : Candidates, override : Overrides]
    /\ rsOut = <<"", "">>
    /\ rsSetup = <<"", "">>
    /\ rsPc = "args"

ResolveParse ==
    /\ rsPc = "args"
    /\ rsOut' = parse_server_meter_state(rsIn.content, Templates, rsIn.candidate,
                                         rsIn.override)
    /\ rsPc' = "parsed"
    /\ UNCHANGED <<rsIn, rsSetup>>
    /\ UNCHANGED notResolve

ResolveSetup ==
    /\ rsPc = "parsed"
    /\ rsSetup' = SetupChoice(ReadConfigFile(rsIn.content), Templates,
                              rsIn.candidate, rsIn.override)
    /\ rsPc' = "done"
    /\ UNCHANGED <<rsIn, rsOut>>
    /\ UNCHANGED notResolve

NextResolve == ResolveParse \/ ResolveSetup


----------------------------------------------------------------------------
(***************************************************************************)
(* LevelReceiver.  A datagram is a sequence of bytes; a level frame is 16  *)
(* bytes, little-endian: uint32 seq, float32 left, right, mono.  A float32 *)
(* is kept as the sign, exponent and mantissa its four bytes encode.       *)
(***************************************************************************)
Bytes4(d, i) == <<d[i], d[i + 1], d[i + 2], d[i + 3]>>

\* struct '<I'
U32(b) == b[1] + 256 * b[2] + 65536 * b[3] + 16777216 * b[4]

\* struct '<f'
F32(b) ==
    [sign |-> b[4] \div 128,
     exp  |-> (b[4] % 128) * 2 + b[3] \div 128,
     mant |-> (b[3] % 128) * 65536 + b[2] * 256 + b[1]]

FloatZero == [sign |-> 0, exp |-> 0, mant |-> 0]

\* struct.unpack('<Ifff', data)
UnpackLevel(data) ==
    [seq   |-> U32(Bytes4(data, 1)),
     left  |-> F32(Bytes4(data, 5)),
     right |-> F32(Bytes4(data, 9)),
     mono  |-> F32(Bytes4(data, 13))]

LEVEL_FRAME_LEN == 16

\* len(data) == 16, as a bug would have it: a longer datagram passes.
IsLevelFrameAtLeast(data) == Len(data) >= LEVEL_FRAME_LEN

IsLevelFrame(data) == Len(data) = LEVEL_FRAME_LEN

\* The datagrams the model delivers: three frames that differ in every
\* field, and datagrams of 0, 12, 15, 17 and 20 bytes.  (The largest seq is
\* 2^31 - 1: the checker's integers are 32-bit signed.)
One == <<0, 0, 128, 63>>
Half == <<0, 0, 0, 63>>
MinusTwo == <<0, 0, 0, 192>>
FrameA == <<1, 0, 0, 0>> \o One \o One \o One
FrameB == <<2, 1, 0, 0>> \o Half \o MinusTwo \o One
FrameC == <<255, 255, 255, 127>> \o MinusTwo \o Half \o Half
Datagrams ==
    {FrameA, FrameB, FrameC,
     <<>>, SubSeq(FrameB, 1, 12), SubSeq(FrameC, 1, 15),
     FrameB \o <<7>>, FrameC \o One}

\* How many datagrams the model delivers.
MaxDatagrams == 3

Triple(r) == <<r.left, r.right, r.mono>>

LevelIdle ==
    /\ levelReceiver = [seq |-> 0, left |-> FloatZero, right |-> FloatZero,
                        mono |-> FloatZero, last_update |-> 0]
    /\ rxPc = "recv"
    /\ rxData = <<>>
    /\ rxFrame = [seq |-> 0, left |-> FloatZero, right |-> FloatZero,
                  mono |-> FloatZero]
    /\ rxCount = 0
    /\ rxBefore = levelReceiver
    /\ rxAccepted = {<<FloatZero, FloatZero, FloatZero>>}
    /\ rdPc = "idle"
    /\ rdLevels = <<FloatZero, FloatZero, FloatZero>>
    /\ rdQuiet = TRUE

\* Lines 1926-1928: recvfrom returns a datagram; a 16-byte one is unpacked,
\* any other is dropped and the loop is back at recvfrom.
LevelRecv ==
    /\ rxPc = "recv"
    /\ rxCount < MaxDatagrams
    /\ \E d \in Datagrams :
        /\ rxData' = d
        /\ rxCount' = rxCount + 1
        /\ rxBefore' = levelReceiver
        /\ IF IsLevelFrame(d)
           THEN /\ rxFrame' = UnpackLevel(d)
                /\ rxAccepted' = rxAccepted \cup {Triple(UnpackLevel(d))}
                /\ rxPc' = "seq"
                /\ rdQuiet' = IF rdPc \in {"right", "mono"} THEN FALSE ELSE rdQuiet
           ELSE /\ rxPc' = "recv"
                /\ UNCHANGED <<rxFrame, rxAccepted, rdQuiet>>
    /\ UNCHANGED <<levelReceiver, rdPc, rdLevels>>
    /\ UNCHANGED notLevel

\* Lines 1929-1933: one attribute store each.
LevelStore(at, field, value, next) ==
    /\ rxPc = at
    /\ levelReceiver' = [levelReceiver EXCEPT ![field] = value]
    /\ rxPc' = next
    /\ UNCHANGED <<rxData, rxFrame, rxCount, rxBefore, rxAccepted, rdPc,
                   rdLevels, rdQuiet>>
    /\ UNCHANGED notLevel

StoreSeq == LevelStore("seq", "seq", rxFrame.seq, "left")
StoreLeft == LevelStore("left", "left", rxFrame.left, "right")

\* self.right = right, as a slip would have it: self.right = left.
StoreRightFromLeft == LevelStore("right", "right", rxFrame.left, "mono")

StoreRight == LevelStore("right", "right", rxFrame.right, "mono")
StoreMono == LevelStore("mono", "mono", rxFrame.mono, "time")
StoreLastUpdate == LevelStore("time", "last_update", rxCount, "recv")

get_levels == <<levelReceiver.left, levelReceiver.right, levelReceiver.mono>>
\* get_levels, lines 1954-1956: three attribute loads, then the tuple.
GetLevelsLeft ==
    /\ rdPc = "idle"
    /\ rdLevels' = <<levelReceiver.left, FloatZero, FloatZero>>
    /\ rdQuiet' = (rxPc = "recv")
    /\ rdPc' = "right"
    /\ UNCHANGED <<levelReceiver, rxPc, rxData, rxFrame, rxCount, rxBefore,
                   rxAccepted>>
    /\ UNCHANGED notLevel

GetLevelsRight ==
    /\ rdPc = "right"
    /\ rdLevels' = <<rdLevels[1], levelReceiver.right, FloatZero>>
    /\ rdPc' = "mono"
    /\ UNCHANGED <<levelReceiver, rxPc, rxData, rxFrame, rxCount, rxBefore,
                   rxAccepted, rdQuiet>>
    /\ UNCHANGED notLevel

GetLevelsMono ==
    /\ rdPc = "mono"
    /\ rdLevels' = <<rdLevels[1], rdLevels[2], levelReceiver.mono>>
    /\ rdPc' = "ret"
    /\ UNCHANGED <<levelReceiver, rxPc, rxData, rxFrame, rxCount, rxBefore,
                   rxAccepted, rdQuiet>>
    /\ UNCHANGED notLevel

\* The caller has the tuple; the next frame's call can start.
GetLevelsReturn ==
    /\ rdPc = "ret"
    /\ rdPc' = "idle"
    /\ UNCHANGED <<levelReceiver, rxPc, rxData, rxFrame, rxCount, rxBefore,
                   rxAccepted, rdLevels, rdQuiet>>
    /\ UNCHANGED notLevel

NextLevel ==
    \/ LevelRecv
    \/ StoreSeq
    \/ StoreLeft
    \/ StoreRight
    \/ StoreMono
    \/ StoreLastUpdate
    \/ GetLevelsLeft
    \/ GetLevelsRight
    \/ GetLevelsMono
    \/ GetLevelsReturn

----------------------------------------------------------------------------
(***************************************************************************)
(* Reconciliation: the server, the ConfigVersionListener thread and the    *)
(* render thread of run_peppymeter_display.                                *)
(*                                                                         *)
(* The render thread's position pc:                                        *)
(*   "setup"      before the first setup_remote_config (line 2733)         *)
(*   "sync"       in the "waiting for server" loop (2931-2947)             *)
(*   "sync_done"  at the test of line 2948                                 *)
(*   "top"        at the top of the display loop (3086)                    *)
(*   "top_b"      at line 3090                                             *)
(*   "display"    inside start_display_output, between two polls           *)
(*   "cb_fetch"   in _check_reload_callback, at fetch() (3062)             *)
(*   "cb_belief"  in _check_reload_callback, at line 3073                  *)
(*   "after"      start_display_output has returned (3108)                 *)
(*   "post_fetch" at the fetch() of line 3117                              *)
(*   "rebuild"    at line 3137                                             *)
(*   "done"       the loop was left; the listener is stopped               *)
(* start_display_output is volumio_peppymeter's: it polls the callback     *)
(* once per frame and returns when the callback returned True or when the  *)
(* user leaves the display.  Peppymeter and its parser are upstream's too: *)
(* the pipeline's (METER_FOLDER, METER) are the meter.folder and meter     *)
(* that setup_remote_config wrote to config.txt.                           *)
(***************************************************************************)
ServerVersions == {"v1", "v2"}
ServerBlobs ==
    {Blob("ok", "F1", "m1"), Blob("ok", "F1", "random"), Blob("ok", "F2", "m1"),
     Blob("empty", "", "")}
ServerActive == {"", "m1", "m3"}
ServerStates == [version : ServerVersions, blob : ServerBlobs, active : ServerActive]
ClientOverrides == {NoOverride, <<"F1", "m1">>}

\* How many times the server's state changes.
MaxServerChanges == 1

\* ConfigFetcher.fetch(): (False, None, None), or the server's config and
\* version.  version is what the call stores in cached_version, if not "":
\* a call can fail after that store (lines 1290-1292, see Fetched).
FetchOutcomes ==
    {[ok |-> FALSE, content |-> Blob("empty", "", ""), version |-> ""],
     [ok |-> FALSE, content |-> Blob("empty", "", ""), version |-> srv.version],
     [ok |-> TRUE, content |-> srv.blob, version |-> srv.version]}

FetchKind(r) ==
    IF ~r.ok THEN "fail" ELSE IF r.content.kind = "empty" THEN "empty" ELSE "ok"

\* "success and config_content", as a bug would have it: the result of a
\* failed or empty fetch is parsed like any other.
UsableAlways(r) == TRUE

\* "success and config_content"
Usable(r) == r.ok /\ r.content.kind # "empty"

\* self.cached_version after the call (lines 1290, 1298-1315).
CachedAfter(r) ==
    IF r.ok \/ r.version # "" THEN r.version ELSE cached_version

\* setup_remote_config, lines 2532-2552: the [current] of config.txt once
\* the fetched config, if any, was written over it.
SetupFile(r, file) == IF Usable(r) THEN ReadConfigFile(r.content) ELSE file

setup_remote_config(r, file, candidate_meter, client_theme_override) ==
    SetupChoice(SetupFile(r, file), Templates, candidate_meter,
                client_theme_override)

AsFile(choice) == [folder |-> choice[1], meter |-> choice[2]]

\* Line 3070, as a bug would have it: the folder alone is compared.
SameSelectionFolderOnly(res, current) == res[1] = current[1]

\* Lines 3070 and 3122.
SameSelection(res, current) == res[1] = current[1] /\ res[2] = current[2]

\* Lines 3073-3075, as a bug would have it: the active meter is not written.
BeliefAfterNoReloadStale(b, res, current, version) ==
    [b EXCEPT !.version = version,
              !.active_meter_folder = OrElse(res[1], current[1])]

\* Lines 3073-3075 and 3123-3125.
BeliefAfterNoReload(b, res, current, version) ==
    [version |-> version,
     active_meter |-> OrElse(res[2], current[2]),
     active_meter_folder |-> OrElse(res[1], current[1])]

\* Lines 3086-3089, as a bug would have it: the test of line 3088 dropped.
BeliefAtLoopTopUnguarded(b, version, candidate) ==
    [b EXCEPT !.version = version, !.active_meter = candidate]

\* Lines 3086-3089.
BeliefAtLoopTop(b, version, candidate) ==
    [b EXCEPT !.version = version,
              !.active_meter = IF candidate # "" THEN candidate ELSE @]

\* Lines 3057-3058, as a bug would have it: no memo, every poll fetches.
MemoizedNever(done) == FALSE

\* Line 3057.
Memoized(done) == done

\* Lines 3122-3129, as a bug would have it: the "continue" is missing.
PostNextFallsThrough(same) == "rebuild"

\* Lines 3118-3131: "continue" when nothing changed, else on to the reload.
PostNext(same) == IF same THEN "top" ELSE "rebuild"

Bump(n) == IF n < 2 THEN n + 1 ELSE n

ReconIdle ==
    /\ srv = [version |-> "v1", blob |-> Blob("ok", "F1", "m1"), active |-> ""]
    /\ srvChanges = 0
    /\ client_override = NoOverride
    /\ configFile = [folder |-> "", meter |-> ""]
    /\ cached_version = ""
    /\ pm = <<"", "">>
    /\ current_version_holder =
           [version |-> "", active_meter |-> "", active_meter_folder |-> ""]
    /\ reload_requested = FALSE
    /\ new_active_meter = ""
    /\ first_announcement_received = FALSE
    /\ reload_check_done = FALSE
    /\ reload_should_exit = "None"
    /\ pending_active_meter = ""
    /\ active_meter_override = ""
    /\ resolved = <<"", "">>
    /\ pc = "done"
    /\ lastPoll = "none"
    /\ engine = "none"
    /\ signalFetches = 0
    /\ lastFetch = "none"
    /\ built = [by |-> "initial", verdict |-> "none"]

\* The state at the call of run_peppymeter_display: nothing fetched, no
\* config.txt written, the listener not yet created.
ReconStart ==
    /\ srv \in {s \in ServerStates : s.version = "v1"}
    /\ srvChanges = 0
    /\ client_override \in ClientOverrides
    /\ configFile = [folder |-> "", meter |-> ""]
    /\ cached_version = ""
    /\ pm = <<"", "">>
    /\ current_version_holder =
           [version |-> "", active_meter |-> "", active_meter_folder |-> ""]
    /\ reload_requested = FALSE
    /\ new_active_meter = ""
    /\ first_announcement_received = FALSE
    /\ reload_check_done = FALSE
    /\ reload_should_exit = "None"
    /\ pending_active_meter = ""
    /\ active_meter_override = ""
    /\ resolved = <<"", "">>
    /\ pc = "setup"
    /\ lastPoll = "none"
    /\ engine = "none"
    /\ signalFetches = 0
    /\ lastFetch = "none"
    /\ built = [by |-> "initial", verdict |-> "none"]

\* The server's state changes: its config is saved (a new version, with
\* the same or another meter selection), or another meter becomes the
\* active one (random meter rotation).
ServerChange ==
    /\ pc # "done"
    /\ srvChanges < MaxServerChanges
    /\ \/ \E v \in ServerVersions \ {srv.version}, b \in ServerBlobs :
            srv' = [srv EXCEPT !.version = v, !.blob = b]
       \/ \E a \in ServerActive \ {srv.active} :
            srv' = [srv EXCEPT !.active = a]
    /\ srvChanges' = srvChanges + 1
    /\ UNCHANGED <<clientVars, ghostVars>>
    /\ UNCHANGED notRecon

\* Lines 2733-2735 and 2882-2891: the first setup_remote_config, the first
\* pipeline, the belief, and the listener started.
InitialSetup ==
    /\ pc = "setup"
    /\ \E r \in FetchOutcomes :
        LET choice == setup_remote_config(r, configFile, "", client_override)
        IN  /\ cached_version' = CachedAfter(r)
            /\ lastFetch' = FetchKind(r)
            /\ configFile' = AsFile(choice)
            /\ pm' = choice
            /\ resolved' = choice
            /\ current_version_holder' =
                   [version |-> CachedAfter(r), active_meter |-> choice[2],
                    active_meter_folder |-> choice[1]]
    /\ pc' = "sync"
    /\ UNCHANGED <<srv, srvChanges, client_override, listenerVars, memoVars,
                   pending_active_meter, active_meter_override, lastPoll,
                   engine, signalFetches, built>>
    /\ UNCHANGED notRecon

\* Line 1215, as a slip would have it: the comparison is inverted.
VersionChangedInverted(info, b) ==
    info.config_version # "" /\ info.config_version = b.version

\* Line 1215.
VersionChanged(info, b) ==
    info.config_version # "" /\ info.config_version # b.version

\* Line 1222.
MeterChanged(info, b) ==
    info.active_meter # "" /\ info.active_meter # b.active_meter

\* ConfigVersionListener.run, lines 1198-1225, on one announcement of the
\* server.
Announce ==
    /\ pc \notin {"setup", "done"}
    /\ LET info == [config_version |-> srv.version, active_meter |-> srv.active]
       IN  /\ first_announcement_received' = TRUE
           /\ new_active_meter' =
                  IF info.active_meter # "" THEN info.active_meter
                  ELSE new_active_meter
           /\ reload_requested' =
                  (reload_requested
                   \/ VersionChanged(info, current_version_holder)
                   \/ MeterChanged(info, current_version_holder))
    /\ UNCHANGED <<srv, srvChanges, client_override, configFile, cached_version,
                   pm, current_version_holder, memoVars, pending_active_meter,
                   active_meter_override, resolved, pc, ghostVars>>
    /\ UNCHANGED notRecon

\* Lines 2931-2947: the wait ends, on the first announcement or on the
\* timeout.
SyncEnd ==
    /\ pc = "sync"
    /\ pc' = "sync_done"
    /\ UNCHANGED <<srv, srvChanges, client_override, configFile, cached_version,
                   pm, current_version_holder, listenerVars, memoVars,
                   pending_active_meter, active_meter_override, resolved,
                   ghostVars>>
    /\ UNCHANGED notRecon

\* Lines 2948-2990: the first announcement carried an active meter; the
\* config is set up again with it and the pipeline built again.
StartupRebuild ==
    /\ pc = "sync_done"
    /\ first_announcement_received /\ new_active_meter # ""
    /\ \E r \in FetchOutcomes :
        LET choice == setup_remote_config(r, configFile, new_active_meter,
                                          client_override)
        IN  /\ cached_version' = CachedAfter(r)
            /\ lastFetch' = FetchKind(r)
            /\ configFile' = AsFile(choice)
            /\ pm' = choice
            /\ resolved' = choice
            /\ current_version_holder' =
                   [current_version_holder EXCEPT
                       !.active_meter = choice[2],
                       !.active_meter_folder = choice[1]]
    /\ active_meter_override' = new_active_meter
    /\ reload_requested' = FALSE
    /\ new_active_meter' = ""
    /\ built' = [by |-> "startup", verdict |-> engine]
    /\ signalFetches' = 0
    /\ pc' = "top"
    /\ UNCHANGED <<srv, srvChanges, client_override,
                   first_announcement_received, memoVars, pending_active_meter,
                   lastPoll, engine>>
    /\ UNCHANGED notRecon

StartupSkip ==
    /\ pc = "sync_done"
    /\ ~(first_announcement_received /\ new_active_meter # "")
    /\ pc' = "top"
    /\ UNCHANGED <<srv, srvChanges, client_override, configFile, cached_version,
                   pm, current_version_holder, listenerVars, memoVars,
                   pending_active_meter, active_meter_override, resolved,
                   ghostVars>>
    /\ UNCHANGED notRecon

\* Lines 3086-3089.
LoopTop ==
    /\ pc = "top"
    /\ current_version_holder' =
           BeliefAtLoopTop(current_version_holder, cached_version,
                           new_active_meter)
    /\ pc' = "top_b"
    /\ UNCHANGED <<srv, srvChanges, client_override, configFile, cached_version,
                   pm, listenerVars, memoVars, pending_active_meter,
                   active_meter_override, resolved, ghostVars>>
    /\ UNCHANGED notRecon

\* Lines 3090-3103: the flags are cleared and the display starts.
LoopStartDisplay ==
    /\ pc = "top_b"
    /\ reload_requested' = FALSE
    /\ pending_active_meter' = new_active_meter
    /\ new_active_meter' = ""
    /\ lastPoll' = "none"
    /\ engine' = "none"
    /\ signalFetches' = 0
    /\ lastFetch' = "none"
    /\ pc' = "display"
    /\ UNCHANGED <<srv, srvChanges, client_override, configFile, cached_version,
                   pm, current_version_holder, first_announcement_received,
                   memoVars, active_meter_override, resolved, built>>
    /\ UNCHANGED notRecon

\* _check_reload_callback, lines 3054-3061: no request, or the memoized
\* verdict, or on to the fetch.
Poll ==
    /\ pc = "display"
    /\ IF ~reload_requested
       THEN /\ reload_check_done' = FALSE
            /\ lastPoll' = "idle"
            /\ UNCHANGED <<reload_should_exit, active_meter_override, pc, engine>>
       ELSE IF Memoized(reload_check_done)
       THEN /\ lastPoll' = IF reload_should_exit = "True" THEN "memo_true"
                           ELSE "memo_false"
            /\ engine' = IF reload_should_exit = "True" THEN "reload"
                         ELSE "noreload"
            /\ UNCHANGED <<memoVars, active_meter_override, pc>>
       ELSE /\ active_meter_override' = new_active_meter
            /\ pc' = "cb_fetch"
            /\ UNCHANGED <<memoVars, lastPoll, engine>>
    /\ UNCHANGED <<srv, srvChanges, client_override, configFile, cached_version,
                   pm, current_version_holder, listenerVars,
                   pending_active_meter, resolved, signalFetches, lastFetch,
                   built>>
    /\ UNCHANGED notRecon

\* _check_reload_callback, lines 3062-3072 and 3080-3082: the fetch; a
\* failure or another selection is "reload"; the same selection clears the
\* request and the candidate.
PollFetch ==
    /\ pc = "cb_fetch"
    /\ \E r \in FetchOutcomes :
        LET res == parse_server_meter_state(r.content, Templates,
                       active_meter_override, client_override)
        IN  /\ cached_version' = CachedAfter(r)
            /\ lastFetch' = FetchKind(r)
            /\ IF ~Usable(r)
               THEN /\ lastPoll' = "fail"
                    /\ engine' = "reload"
                    /\ reload_check_done' = TRUE
                    /\ reload_should_exit' = "True"
                    /\ signalFetches' = Bump(signalFetches)
                    /\ pc' = "display"
                    /\ UNCHANGED <<resolved, reload_requested, new_active_meter>>
               ELSE IF SameSelection(res, pm)
               THEN /\ resolved' = res
                    /\ reload_requested' = FALSE
                    /\ new_active_meter' = ""
                    /\ signalFetches' = 0
                    /\ pc' = "cb_belief"
                    /\ UNCHANGED <<memoVars, lastPoll, engine>>
               ELSE /\ resolved' = res
                    /\ lastPoll' = "differs"
                    /\ engine' = "reload"
                    /\ reload_check_done' = TRUE
                    /\ reload_should_exit' = "True"
                    /\ signalFetches' = Bump(signalFetches)
                    /\ pc' = "display"
                    /\ UNCHANGED <<reload_requested, new_active_meter>>
    /\ UNCHANGED <<srv, srvChanges, client_override, configFile, pm,
                   current_version_holder, first_announcement_received,
                   pending_active_meter, active_meter_override, built>>
    /\ UNCHANGED notRecon

\* _check_reload_callback, lines 3073-3079.
PollBelief ==
    /\ pc = "cb_belief"
    /\ current_version_holder' =
           BeliefAfterNoReload(current_version_holder, resolved, pm,
                               cached_version)
    /\ reload_check_done' = TRUE
    /\ reload_should_exit' = "False"
    /\ lastPoll' = "same"
    /\ engine' = "noreload"
    /\ pc' = "display"
    /\ UNCHANGED <<srv, srvChanges, client_override, configFile, cached_version,
                   pm, listenerVars, pending_active_meter,
                   active_meter_override, resolved, signalFetches, lastFetch,
                   built>>
    /\ UNCHANGED notRecon

\* start_display_output returns: the callback returned True, or the user
\* left the display.
DisplayReturn ==
    /\ pc = "display"
    /\ pc' = "after"
    /\ UNCHANGED <<srv, srvChanges, client_override, configFile, cached_version,
                   pm, current_version_holder, listenerVars, memoVars,
                   pending_active_meter, active_meter_override, resolved,
                   ghostVars>>
    /\ UNCHANGED notRecon

\* Lines 3108-3116 (and 3233 on the break).
AfterDisplay ==
    /\ pc = "after"
    /\ IF ~reload_requested
       THEN /\ pc' = "done"
            /\ UNCHANGED active_meter_override
       ELSE /\ active_meter_override' =
                   OrElse(new_active_meter, pending_active_meter)
            /\ pc' = "post_fetch"
    /\ UNCHANGED <<srv, srvChanges, client_override, configFile, cached_version,
                   pm, current_version_holder, listenerVars, memoVars,
                   pending_active_meter, resolved, ghostVars>>
    /\ UNCHANGED notRecon

\* Lines 3117-3129: the check after the display loop.
PostFetch ==
    /\ pc = "post_fetch"
    /\ \E r \in FetchOutcomes :
        LET res == parse_server_meter_state(r.content, Templates,
                       active_meter_override, client_override)
            same == Usable(r) /\ SameSelection(res, pm)
        IN  /\ cached_version' = CachedAfter(r)
            /\ lastFetch' = FetchKind(r)
            /\ resolved' = IF Usable(r) THEN res ELSE resolved
            /\ engine' = IF same THEN "noreload" ELSE "reload"
            /\ pc' = PostNext(same)
            /\ IF same
               THEN /\ current_version_holder' =
                           BeliefAfterNoReload(current_version_holder, res, pm,
                                               CachedAfter(r))
                    /\ reload_requested' = FALSE
                    /\ new_active_meter' = ""
                    /\ signalFetches' = 0
               ELSE UNCHANGED <<current_version_holder, reload_requested,
                                new_active_meter, signalFetches>>
    /\ UNCHANGED <<srv, srvChanges, client_override, configFile, pm,
                   first_announcement_received, memoVars, pending_active_meter,
                   active_meter_override, lastPoll, built>>
    /\ UNCHANGED notRecon

\* Lines 3137-3231: setup_remote_config again, and the pipeline torn down
\* and built again from what it wrote.
Rebuild ==
    /\ pc = "rebuild"
    /\ \E r \in FetchOutcomes :
        LET choice == setup_remote_config(r, configFile, active_meter_override,
                                          client_override)
        IN  /\ cached_version' = CachedAfter(r)
            /\ lastFetch' = FetchKind(r)
            /\ configFile' = AsFile(choice)
            /\ pm' = choice
            /\ resolved' = choice
            /\ current_version_holder' =
                   [current_version_holder EXCEPT
                       !.active_meter = choice[2],
                       !.active_meter_folder = choice[1]]
    /\ built' = [by |-> "loop", verdict |-> engine]
    /\ pc' = "top"
    /\ UNCHANGED <<srv, srvChanges, client_override, listenerVars, memoVars,
                   pending_active_meter, active_meter_override, lastPoll,
                   engine, signalFetches>>
    /\ UNCHANGED notRecon

NextRecon ==
    \/ ServerChange
    \/ InitialSetup
    \/ Announce
    \/ SyncEnd
    \/ StartupRebuild
    \/ StartupSkip
    \/ LoopTop
    \/ LoopStartDisplay
    \/ Poll
    \/ PollFetch
    \/ PollBelief
    \/ DisplayReturn
    \/ AfterDisplay
    \/ PostFetch
    \/ Rebuild

----------------------------------------------------------------------------
(***************************************************************************)
(* SpectrumReceiver.  A datagram has a source address and a payload; a     *)
(* spectrum frame is, little-endian, uint32 seq, uint16 size and size      *)
(* float32 bins.                                                           *)
(***************************************************************************)
\* struct '<H'
U16(b) == b[1] + 256 * b[2]

SPECTRUM_HEADER_LEN == 6

\* Line 2013.
ExpectedLen(size) == SPECTRUM_HEADER_LEN + size * 4

\* struct.unpack('<IH', data[:6]), as a slip would have it: the size is
\* read from its high byte alone.
UnpackSpectrumHeaderHighByte(data) ==
    [seq |-> U32(Bytes4(data, 1)), size |-> data[6]]

\* Line 2012: struct.unpack('<IH', data[:6]).
UnpackSpectrumHeader(data) ==
    [seq |-> U32(Bytes4(data, 1)), size |-> U16(<<data[5], data[6]>>)]

\* Lines 2017-2018: struct.unpack('<Nf', data[6:expected_len]).
UnpackBins(data, size) ==
    [i \in 1..size |-> F32(Bytes4(data, SPECTRUM_HEADER_LEN + 4 * i - 3))]

\* Line 2007, as a slip would have it: no source is turned away.
FromServerAny(source_ip, server_ip) == TRUE

\* Line 2007: the source filter.
FromServer(source_ip, server_ip) == source_ip = server_ip

\* Lines 2010 and 2015: the two length tests.
IsSpectrumFrame(data) ==
    /\ Len(data) >= SPECTRUM_HEADER_LEN
    /\ Len(data) >= ExpectedLen(UnpackSpectrumHeader(data).size)

\* The addresses datagrams come from; the first is the configured server. /\ SmootherIdle
SpectrumServerIp == "10.0.0.1"
SourceIps == {"10.0.0.1", "10.0.0.2"}

\* The payloads the model delivers: frames of one and of two bins, a frame
\* of one bin with bytes after it, a frame that declares no bin, and
\* payloads of 0 and 5 bytes and of a header declaring two bins with 0, 4
\* and 7 bytes of bins.
HeaderOf(seqByte, size) == <<seqByte, 0, 0, 0, size, 0>>
SpectrumPayloads ==
    {HeaderOf(1, 1) \o One,
     HeaderOf(2, 2) \o Half \o MinusTwo,
     HeaderOf(3, 1) \o MinusTwo \o <<9, 9>>,
     HeaderOf(4, 0),
     <<>>,
     <<5, 0, 0, 0, 2>>,
     HeaderOf(6, 2),
     HeaderOf(7, 2) \o One,
     HeaderOf(8, 2) \o One \o <<0, 0, 128>>}
SpectrumDatagrams ==
    [src : SourceIps, data : SpectrumPayloads]

\* How many datagrams the model delivers to the spectrum socket.
MaxSpectrumDatagrams == 3

\* get_bins(), lines 2071-2073, and has_data(), lines 2075-2077.
get_bins == spectrumReceiver.bins
has_data == spectrumReceiver.last_update > 0

\* __init__, lines 1972-1984, and start(), lines 1986-1995.
SpectrumIdle ==
    /\ spectrumReceiver = [seq |-> 0, size |-> 0, bins |-> <<>>,
                           last_update |-> 0]
    /\ spRunning = TRUE
    /\ spPc = "recv"
    /\ spData = [src |-> SpectrumServerIp, data |-> <<>>]
    /\ spFrame = [seq |-> 0, size |-> 0, bins |-> <<>>]
    /\ spCount = 0
    /\ spBefore = spectrumReceiver
    /\ spAccepted = {}

\* Lines 2002-2018: recvfrom returns a datagram; one from another source,
\* one shorter than the header or shorter than its header declares is
\* dropped and the loop is back at recvfrom; any other is unpacked.
SpectrumRecv ==
    /\ spPc = "recv"
    /\ spRunning
    /\ spCount < MaxSpectrumDatagrams
    /\ \E d \in SpectrumDatagrams :
        /\ spData' = d
        /\ spCount' = spCount + 1
        /\ spBefore' = spectrumReceiver
        /\ IF FromServer(d.src, SpectrumServerIp) /\ IsSpectrumFrame(d.data)
           THEN LET h == UnpackSpectrumHeader(d.data)
                IN  /\ spFrame' = [seq |-> h.seq, size |-> h.size,
                                   bins |-> UnpackBins(d.data, h.size)]
                    /\ spAccepted' = spAccepted \cup {d}
                    /\ spPc' = "seq"
           ELSE /\ spPc' = "recv"
                /\ UNCHANGED <<spFrame, spAccepted>>
    /\ UNCHANGED <<spectrumReceiver, spRunning>>
    /\ UNCHANGED notSpectrum

\* Lines 2020-2023: one attribute store each.
SpectrumStore(at, field, value, next) ==
    /\ spPc = at
    /\ spectrumReceiver' = [spectrumReceiver EXCEPT ![field] = value]
    /\ spPc' = next
    /\ UNCHANGED <<spRunning, spData, spFrame, spCount, spBefore, spAccepted>>
    /\ UNCHANGED notSpectrum

SpectrumStoreSeq == SpectrumStore("seq", "seq", spFrame.seq, "size")
SpectrumStoreSize == SpectrumStore("size", "size", spFrame.size, "bins")
SpectrumStoreBins == SpectrumStore("bins", "bins", spFrame.bins, "time")
SpectrumStoreLastUpdate ==
    SpectrumStore("time", "last_update", spCount, "log")

\* Line 2032: max(bins) raises ValueError on an empty list.
MaxBinsRaises(bins) == Len(bins) = 0

\* Lines 2025-2040: the two log calls.  The second formats max(bins); the
\* ValueError of an empty list is caught by "except Exception", which
\* leaves the loop.
SpectrumLog ==
    /\ spPc = "log"
    /\ spPc' = IF MaxBinsRaises(spFrame.bins) THEN "ended" ELSE "recv"
    /\ UNCHANGED <<spectrumReceiver, spRunning, spData, spFrame, spCount,
                   spBefore, spAccepted>>
    /\ UNCHANGED notSpectrum

\* stop(), lines 2042-2046, from the main thread.
SpectrumStop ==
    /\ spRunning
    /\ spRunning' = FALSE
    /\ UNCHANGED <<spectrumReceiver, spPc, spData, spFrame, spCount, spBefore,
                   spAccepted>>
    /\ UNCHANGED notSpectrum

\* Lines 2000 and 2037-2040: after stop() the loop condition is false, or
\* recvfrom raises on the closed socket; the loop is left.
SpectrumExit ==
    /\ spPc = "recv"
    /\ ~spRunning
    /\ spPc' = "stopped"
    /\ UNCHANGED <<spectrumReceiver, spRunning, spData, spFrame, spCount,
                   spBefore, spAccepted>>
    /\ UNCHANGED notSpectrum

NextSpectrum ==
    \/ SpectrumRecv
    \/ SpectrumStoreSeq
    \/ SpectrumStoreSize
    \/ SpectrumStoreBins
    \/ SpectrumStoreLastUpdate
    \/ SpectrumLog
    \/ SpectrumStop
    \/ SpectrumExit

----------------------------------------------------------------------------
(***************************************************************************)
(* ServerDiscovery.discover.  The payload of a datagram is kept as what    *)
(* json.loads makes of it:                                                 *)
(*   kind "garbage"    not UTF-8 or not JSON: json.loads raises            *)
(*   kind "nonobject"  JSON that is not an object (a list, a number, ...)  *)
(*   kind "object"     a JSON object: obj maps its keys to their values    *)
(***************************************************************************)
JsonObject(obj) == [kind |-> "object", obj |-> obj]
NotJson == [kind |-> "garbage", obj |-> <<>>]
JsonNonObject == [kind |-> "nonobject", obj |-> <<>>]
NoKeys == <<>>

\* json.loads(data.decode('utf-8')) raises JSONDecodeError or
\* UnicodeDecodeError.
JsonLoadsRaises(payload) == payload.kind = "garbage"

\* info.get(...) raises AttributeError: a list, a number, a string or null
\* has no get.
GetRaises(info) == info.kind # "object"

\* dict.get(key, default)
Get(info, key, default) ==
    IF key \in DOMAIN info.obj THEN info.obj[key] ELSE default

PEPPY_SERVICE == "peppy_level_server"

\* Lines 1125 and 1203.
IsAnnouncement(info) == Get(info, "service", "") = PEPPY_SERVICE

\* Lines 1126-1127 and 1132, as a slip would have it: the map is keyed by
\* the announced hostname.
ServerKeyHostname(ip, info) == Get(info, "hostname", ip)

\* Lines 1126-1127 and 1132: the key of the map is the source address.
ServerKey(ip, info) == ip

\* Lines 1132-1140.
ServerRecord(ip, info) ==
    [ip |-> ip,
     hostname |-> Get(info, "hostname", ip),
     level_port |-> Get(info, "level_port", 5580),
     spectrum_port |-> Get(info, "spectrum_port", 5581),
     volumio_port |-> Get(info, "volumio_port", 3000),
     version |-> Get(info, "version", 1),
     config_version |-> Get(info, "config_version", "")]

\* Lines 1143-1145: the config_version of an entry after a later
\* announcement.
UpdatedVersion(entry, info) ==
    LET new_version == Get(info, "config_version", "")
    IN  IF new_version # "" /\ new_version # entry.config_version
        THEN new_version ELSE entry.config_version

\* Lines 1126-1146: the map after an announcement from ip.
ServersAfter(map, ip, info) ==
    LET key == ServerKey(ip, info)
    IN  IF key \notin DOMAIN map
        THEN [k \in DOMAIN map \cup {key} |->
                 IF k = key THEN ServerRecord(ip, info) ELSE map[k]]
        ELSE [map EXCEPT ![key] =
                 [map[key] EXCEPT
                      !.config_version = UpdatedVersion(map[key], info)]]

\* What arrives on the discovery port.
DiscoveryIps == {"10.0.0.1", "10.0.0.2"}
DiscoveryPayloads ==
    {NotJson, JsonNonObject,
     JsonObject([service |-> "other_service", hostname |-> "h1",
                 config_version |-> "v1"]),
     JsonObject([hostname |-> "h1", config_version |-> "v1"])}
    \cup {JsonObject([service |-> PEPPY_SERVICE] @@ h @@ v) :
              h \in {NoKeys, [hostname |-> "h1"], [hostname |-> "h2"]},
              v \in {NoKeys, [config_version |-> "v1"],
                     [config_version |-> "v2"]}}
    \cup {JsonObject([service |-> PEPPY_SERVICE, hostname |-> "h1",
                      level_port |-> 6000, config_version |-> ""])}
DiscoveryDatagrams == [src : DiscoveryIps, payload : DiscoveryPayloads]

\* How many datagrams the model delivers during one discover().
MaxDiscoveryDatagrams == 3

\* __init__, lines 1102-1106, and discover() down to line 1118.
DiscoveryIdle ==
    /\ servers = <<>>
    /\ discovery_stop = FALSE
    /\ dsDeadline = FALSE
    /\ dsPc = "check"
    /\ dsCount = 0
    /\ dsData = [src |-> "10.0.0.1", payload |-> NotJson]
    /\ dsBefore = <<>>
    /\ dsAnnounced = {}
    /\ dsEnd = "none"

\* Line 1120: the loop condition.
DiscoverCheck ==
    /\ dsPc = "check"
    /\ IF discovery_stop
       THEN dsPc' = "close" /\ dsEnd' = "stop"
       ELSE IF dsDeadline
       THEN dsPc' = "close" /\ dsEnd' = "deadline"
       ELSE dsPc' = "recv" /\ dsEnd' = dsEnd
    /\ UNCHANGED <<servers, discovery_stop, dsDeadline, dsCount, dsData,
                   dsBefore, dsAnnounced>>
    /\ UNCHANGED notDiscovery

\* Lines 1122-1155: recvfrom returns a datagram.  One json.loads rejects is
\* passed over (1147-1149); an AttributeError of info.get is an Exception
\* (1152-1155) and breaks out of the loop; an announcement makes or updates
\* the entry of its source.
DiscoverRecv ==
    /\ dsPc = "recv"
    /\ dsCount < MaxDiscoveryDatagrams
    /\ \E d \in DiscoveryDatagrams :
        /\ dsData' = d
        /\ dsCount' = dsCount + 1
        /\ dsBefore' = servers
        /\ dsAnnounced' =
               IF /\ d.payload.kind = "object"
                  /\ "service" \in DOMAIN d.payload.obj
                  /\ d.payload.obj["service"] = "peppy_level_server"
               THEN dsAnnounced \cup {d.src} ELSE dsAnnounced
        /\ IF JsonLoadsRaises(d.payload)
           THEN dsPc' = "check" /\ UNCHANGED <<servers, dsEnd>>
           ELSE IF GetRaises(d.payload)
           THEN dsPc' = "close" /\ dsEnd' = "error" /\ UNCHANGED servers
           ELSE /\ dsPc' = "check"
                /\ servers' = IF IsAnnouncement(d.payload)
                              THEN ServersAfter(servers, d.src, d.payload)
                              ELSE servers
                /\ UNCHANGED dsEnd
    /\ UNCHANGED <<discovery_stop, dsDeadline>>
    /\ UNCHANGED notDiscovery

\* Lines 1150-1151: recvfrom timed out after a second.
DiscoverTimeout ==
    /\ dsPc = "recv"
    /\ dsPc' = "check"
    /\ UNCHANGED <<servers, discovery_stop, dsDeadline, dsCount, dsData,
                   dsBefore, dsAnnounced, dsEnd>>
    /\ UNCHANGED notDiscovery

\* Time passes: time.time() - start_time reaches self.timeout.
DiscoverDeadline ==
    /\ ~dsDeadline
    /\ dsPc \in {"check", "recv"}
    /\ dsDeadline' = TRUE
    /\ UNCHANGED <<servers, discovery_stop, dsPc, dsCount, dsData, dsBefore,
                   dsAnnounced, dsEnd>>
    /\ UNCHANGED notDiscovery

\* stop(), lines 1161-1162, from another thread.
DiscoverStop ==
    /\ ~discovery_stop
    /\ dsPc \in {"check", "recv"}
    /\ discovery_stop' = TRUE
    /\ UNCHANGED <<servers, dsDeadline, dsPc, dsCount, dsData, dsBefore,
                   dsAnnounced, dsEnd>>
    /\ UNCHANGED notDiscovery

\* Lines 1157-1159: sock.close(); return self.servers.
DiscoverReturn ==
    /\ dsPc = "close"
    /\ dsPc' = "returned"
    /\ UNCHANGED <<servers, discovery_stop, dsDeadline, dsCount, dsData,
                   dsBefore, dsAnnounced, dsEnd>>
    /\ UNCHANGED notDiscovery

NextDiscovery ==
    \/ DiscoverCheck
    \/ DiscoverRecv
    \/ DiscoverTimeout
    \/ DiscoverDeadline
    \/ DiscoverStop
    \/ DiscoverReturn

----------------------------------------------------------------------------
(***************************************************************************)
(* ConfigVersionListener: run() step by step, stop_listener() from another *)
(* thread, and the render thread's stores into the listener's fields and   *)
(* into the belief.  The socket object is open or closed (wSockOpen);      *)
(* self._sock refers to it or is None (listener_sock).                     *)
(***************************************************************************)
\* The address the listener was created with (line 2889), and the sources
\* of what arrives on the discovery port.
ListenerServerIp == "10.0.0.1"
WatcherIps == {"10.0.0.1", "10.0.0.2"}

WatcherPayloads ==
    {NotJson, JsonNonObject,
     JsonObject([service |-> "other_service", config_version |-> "v2",
                 active_meter |-> "m2"])}
    \cup {JsonObject([service |-> PEPPY_SERVICE] @@ v @@ a) :
              v \in {NoKeys, [config_version |-> ""],
                     [config_version |-> "v1"], [config_version |-> "v2"]},
              a \in {NoKeys, [active_meter |-> "m1"], [active_meter |-> "m2"]}}
WatcherDatagrams == [src : WatcherIps, payload : WatcherPayloads]

\* How many datagrams the model delivers to the listener.
MaxWatcherDatagrams == 2

\* What the render thread can have in the belief.
WatcherBeliefs ==
    [version : {"v1", "v2"}, active_meter : {"m1", "m2"},
     active_meter_folder : {"F1"}]

\* Line 1199, as a slip would have it: no source is turned away.
AcceptsAnySource(server_ip, source_ip) == TRUE

\* Line 1199.
AcceptsSource(server_ip, source_ip) == server_ip = "" \/ source_ip = server_ip

\* info.get('config_version', '') and info.get('active_meter', ''), lines
\* 1208, 1212 and 1219.
InfoOf(payload) ==
    [config_version |-> Get(payload, "config_version", ""),
     active_meter |-> Get(payload, "active_meter", "")]

\* Lines 1208-1209: the candidate after the first store.
CandidateAfter(info, candidate) ==
    IF info.active_meter # "" THEN info.active_meter ELSE candidate

\* A closed socket raises OSError (EBADF) on setsockopt, settimeout, bind
\* and recvfrom.
SocketRaises(open) == ~open

\* __init__, lines 1176-1185, before start().
WatcherIdle ==
    /\ listener_stop = FALSE
    /\ listener_sock = "None"
    /\ wSockOpen = FALSE
    /\ wPc = "start"
    /\ wData = [src |-> ListenerServerIp, payload |-> NotJson]
    /\ wCount = 0
    /\ wAnnouncements = 0
    /\ wRaised = "none"
    /\ stPc = "idle"
    /\ stRaised = "none"

watcherFrame == <<srv, srvChanges, client_override, configFile, cached_version,
                  pm, memoVars, pending_active_meter, active_meter_override,
                  resolved, pc, ghostVars>>

\* One step of run() that stores into no field of the listener.
WatcherStep(at, next) ==
    /\ wPc = at
    /\ wPc' = next
    /\ UNCHANGED <<listener_stop, wData, wCount, wAnnouncements, stPc, stRaised>>
    /\ UNCHANGED <<current_version_holder, watcherFrame>>
    /\ UNCHANGED notWatcher

\* Line 1188.
WatcherSocket ==
    /\ WatcherStep("start", "setsockopt")
    /\ listener_sock' = "socket"
    /\ wSockOpen' = TRUE
    /\ UNCHANGED <<wRaised, listenerVars>>

\* Lines 1189 and 1190: outside every try; on a socket that stop_listener
\* closed the OSError leaves run().
WatcherSetup(at, next) ==
    /\ WatcherStep(at, IF SocketRaises(wSockOpen) THEN "raised" ELSE next)
    /\ wRaised' = IF SocketRaises(wSockOpen) THEN "OSError" ELSE wRaised
    /\ UNCHANGED <<listener_sock, wSockOpen, listenerVars>>

WatcherSetsockopt == WatcherSetup("setsockopt", "settimeout")
WatcherSettimeout == WatcherSetup("settimeout", "bind")

\* Lines 1191-1195: the OSError of bind is caught and run() returns.
WatcherBind ==
    /\ WatcherStep("bind", IF SocketRaises(wSockOpen) THEN "done" ELSE "loop")
    /\ UNCHANGED <<listener_sock, wSockOpen, wRaised, listenerVars>>

\* Line 1196.
WatcherLoop ==
    /\ WatcherStep("loop", IF listener_stop THEN "close" ELSE "recv")
    /\ UNCHANGED <<listener_sock, wSockOpen, wRaised, listenerVars>>

\* Lines 1198 and 1229-1234, without a datagram: the receive times out, or
\* the socket was closed and the OSError is the end of the loop (_stop is
\* set before stop_listener closes the socket).
WatcherRecvNone ==
    /\ WatcherStep("recv",
                   IF ~SocketRaises(wSockOpen) THEN "loop"
                   ELSE IF listener_stop THEN "close" ELSE "raised")
    /\ wRaised' = IF SocketRaises(wSockOpen) /\ ~listener_stop
                  THEN "OSError" ELSE wRaised
    /\ UNCHANGED <<listener_sock, wSockOpen, listenerVars>>

\* Lines 1198-1207 and 1227-1228: recvfrom returns a datagram.  One from
\* another source, one json.loads rejects and one of another service are
\* passed over; the AttributeError of info.get on a JSON non-object is
\* caught by no except clause and leaves run(); an announcement sets
\* first_announcement_received.
WatcherRecv ==
    /\ wPc = "recv"
    /\ wSockOpen
    /\ wCount < MaxWatcherDatagrams
    /\ \E d \in WatcherDatagrams :
        /\ wData' = d
        /\ wCount' = wCount + 1
        /\ wAnnouncements' =
               IF /\ d.src = ListenerServerIp
                  /\ d.payload.kind = "object"
                  /\ "service" \in DOMAIN d.payload.obj
                  /\ d.payload.obj["service"] = "peppy_level_server"
               THEN wAnnouncements + 1 ELSE wAnnouncements
        /\ IF ~AcceptsSource(ListenerServerIp, d.src)
              \/ JsonLoadsRaises(d.payload)
           THEN /\ wPc' = "loop"
                /\ UNCHANGED <<wRaised, first_announcement_received>>
           ELSE IF GetRaises(d.payload)
           THEN /\ wPc' = "raised"
                /\ wRaised' = "AttributeError"
                /\ UNCHANGED first_announcement_received
           ELSE IF ~IsAnnouncement(d.payload)
           THEN /\ wPc' = "loop"
                /\ UNCHANGED <<wRaised, first_announcement_received>>
           ELSE /\ wPc' = "candidate"
                /\ first_announcement_received' = TRUE
                /\ UNCHANGED wRaised
    /\ UNCHANGED <<listener_stop, listener_sock, wSockOpen, stPc, stRaised,
                   reload_requested, new_active_meter>>
    /\ UNCHANGED <<current_version_holder, watcherFrame>>
    /\ UNCHANGED notWatcher

\* Lines 1208-1209.
WatcherCandidate ==
    /\ WatcherStep("candidate", "version")
    /\ new_active_meter' =
           CandidateAfter(InfoOf(wData.payload), new_active_meter)
    /\ UNCHANGED <<listener_sock, wSockOpen, wRaised, reload_requested,
                   first_announcement_received>>

\* Lines 1212-1216.
WatcherVersion ==
    /\ WatcherStep("version", "meter")
    /\ reload_requested' =
           (reload_requested
            \/ VersionChanged(InfoOf(wData.payload), current_version_holder))
    /\ UNCHANGED <<listener_sock, wSockOpen, wRaised, new_active_meter,
                   first_announcement_received>>

\* Lines 1219-1224.
WatcherMeter ==
    /\ LET changed == MeterChanged(InfoOf(wData.payload),
                                   current_version_holder)
       IN  /\ WatcherStep("meter", IF changed THEN "meter_flag" ELSE "loop")
           /\ new_active_meter' =
                  IF changed THEN InfoOf(wData.payload).active_meter
                  ELSE new_active_meter
    /\ UNCHANGED <<listener_sock, wSockOpen, wRaised, reload_requested,
                   first_announcement_received>>

\* Line 1225.
WatcherMeterFlag ==
    /\ WatcherStep("meter_flag", "loop")
    /\ reload_requested' = TRUE
    /\ UNCHANGED <<listener_sock, wSockOpen, wRaised, new_active_meter,
                   first_announcement_received>>

\* Lines 1235-1238.
WatcherClose ==
    /\ WatcherStep("close", "clear")
    /\ wSockOpen' = FALSE
    /\ UNCHANGED <<listener_sock, wRaised, listenerVars>>

\* Line 1239.
WatcherClear ==
    /\ WatcherStep("clear", "done")
    /\ listener_sock' = "None"
    /\ UNCHANGED <<wSockOpen, wRaised, listenerVars>>

\* One step of stop_listener().
StopperStep(at, next) ==
    /\ stPc = at
    /\ stPc' = next
    /\ UNCHANGED <<listener_sock, wPc, wData, wCount, wAnnouncements, wRaised,
                   stRaised, listenerVars>>
    /\ UNCHANGED <<current_version_holder, watcherFrame>>
    /\ UNCHANGED notWatcher

\* Line 1242.
StopListenerSet ==
    /\ StopperStep("idle", "check")
    /\ listener_stop' = TRUE
    /\ UNCHANGED wSockOpen

\* Line 1243.
StopListenerCheck ==
    /\ StopperStep("check", IF listener_sock # "None" THEN "close" ELSE "done")
    /\ UNCHANGED <<listener_stop, wSockOpen>>

\* Lines 1244-1247: self._sock is read again; when run() has set it to
\* None meanwhile, the AttributeError is caught.
StopListenerClose ==
    /\ StopperStep("close", "done")
    /\ wSockOpen' = IF listener_sock # "None" THEN FALSE ELSE wSockOpen
    /\ UNCHANGED listener_stop

\* The render thread, lines 3071-3072 and 3090-3093: its stores into the
\* listener's fields.
RenderClearsFlag ==
    /\ reload_requested
    /\ wPc \notin {"start", "done", "raised"}
    /\ reload_requested' = FALSE
    /\ UNCHANGED <<new_active_meter, first_announcement_received,
                   current_version_holder, watcherFrame>>
    /\ UNCHANGED <<listener_stop, listener_sock, wSockOpen, wPc, wData, wCount,
                   wAnnouncements, wRaised, stPc, stRaised>>
    /\ UNCHANGED notWatcher

RenderClearsCandidate ==
    /\ new_active_meter # ""
    /\ wPc \notin {"start", "done", "raised"}
    /\ new_active_meter' = ""
    /\ UNCHANGED <<reload_requested, first_announcement_received,
                   current_version_holder, watcherFrame>>
    /\ UNCHANGED <<listener_stop, listener_sock, wSockOpen, wPc, wData, wCount,
                   wAnnouncements, wRaised, stPc, stRaised>>
    /\ UNCHANGED notWatcher

\* The render thread's stores into the belief (lines 2954-2955, 3073-3075,
\* 3086-3089, 3123-3125, 3141-3142).
RenderWritesBelief ==
    /\ wPc \notin {"start", "done", "raised"}
    /\ \E b \in WatcherBeliefs :
        /\ b # current_version_holder
        /\ current_version_holder' = b
    /\ UNCHANGED <<listenerVars, watcherFrame>>
    /\ UNCHANGED <<listener_stop, listener_sock, wSockOpen, wPc, wData, wCount,
                   wAnnouncements, wRaised, stPc, stRaised>>
    /\ UNCHANGED notWatcher

NextWatcher ==
    \/ WatcherSocket
    \/ WatcherSetsockopt
    \/ WatcherSettimeout
    \/ WatcherBind
    \/ WatcherLoop
    \/ WatcherRecvNone
    \/ WatcherRecv
    \/ WatcherCandidate
    \/ WatcherVersion
    \/ WatcherMeter
    \/ WatcherMeterFlag
    \/ WatcherClose
    \/ WatcherClear
    \/ StopListenerSet
    \/ StopListenerCheck
    \/ StopListenerClose
    \/ RenderClearsFlag
    \/ RenderClearsCandidate
    \/ RenderWritesBelief

\* The listener created at line 2888, the belief as the render thread made
\* it at lines 2882-2886.
WatcherStart ==
    /\ srv = [version |-> "v1", blob |-> Blob("ok", "F1", "m1"), active |-> ""]
    /\ srvChanges = 0
    /\ client_override = NoOverride
    /\ configFile = [folder |-> "F1", meter |-> "m1"]
    /\ cached_version = "v1"
    /\ pm = <<"F1", "m1">>
    /\ current_version_holder \in WatcherBeliefs
    /\ reload_requested = FALSE
    /\ new_active_meter = ""
    /\ first_announcement_received = FALSE
    /\ reload_check_done = FALSE
    /\ reload_should_exit = "None"
    /\ pending_active_meter = ""
    /\ active_meter_override = ""
    /\ resolved = <<"F1", "m1">>
    /\ pc = "sync"
    /\ lastPoll = "none"
    /\ engine = "none"
    /\ signalFetches = 0
    /\ lastFetch = "ok"
    /\ built = [by |-> "initial", verdict |-> "none"]

----------------------------------------------------------------------------
(***************************************************************************)
(* ConfigFetcher.fetch.  A response is how the HTTP call ended and, when   *)
(* it returned a body, what json.loads makes of it.  A JSON value that can *)
(* be a number, a string or null is a record: its type t, and n or s.      *)
(***************************************************************************)
JsonInt(n) == [t |-> "int", n |-> n, s |-> ""]
JsonStr(s) == [t |-> "str", n |-> 0, s |-> s]
JsonNull == [t |-> "null", n |-> 0, s |-> ""]

\* "x or 0" / "x or 'freeze'": None, 0 and '' are falsy.
Falsy(v) ==
    \/ v.t = "null"
    \/ v.t = "int" /\ v.n = 0
    \/ v.t = "str" /\ v.s = ""

\* The strings int() converts, and what it makes of them.
NumericStrings == {"45"}
IntOfString(s) == IF s = "45" THEN 45 ELSE 0

\* int(v) raises ValueError.
IntRaises(v) == v.t = "str" /\ v.s \notin NumericStrings

\* int(v)
IntOf(v) == IF v.t = "int" THEN v.n ELSE IntOfString(v.s)

\* Line 1292: the operand of int(), inner.get('persist_duration', 0) or 0.
PersistDurationOperand(inner) ==
    LET v == Get(inner, "persist_duration", JsonInt(0))
    IN  IF Falsy(v) THEN JsonInt(0) ELSE v

\* Line 1293: inner.get('persist_display', 'freeze') or 'freeze'.
PersistDisplayOf(inner) ==
    LET v == Get(inner, "persist_display", JsonStr("freeze"))
    IN  IF Falsy(v) THEN "freeze" ELSE v.s

\* Line 1286: data.get('success').
OuterSuccess(data) == Get(data, "success", FALSE)

\* Line 1288, as a slip would have it: the inner flag is not looked at.
InnerSuccessIgnored(inner) == TRUE

\* Line 1288: inner.get('success').
InnerSuccess(inner) == Get(inner, "success", FALSE)

\* Line 1287: data.get('data', {}).
InnerOf(data) == Get(data, "data", JsonObject(NoKeys))

\* The (False, None, None) of every failure.
FetchFailure == [ok |-> FALSE, config |-> "None", version |-> "None"]

\* fetch(), lines 1279-1315: the fetcher's fields after the call and the
\* tuple returned.  f is the fetcher's fields before the call.
Fetched(f, response) ==
    LET failed == [f EXCEPT !.ret = FetchFailure]
    IN  IF response.transport # "ok" THEN failed          \* 1304-1309, 1313
        ELSE IF JsonLoadsRaises(response.body) THEN failed   \* 1310-1315
        ELSE IF GetRaises(response.body) THEN failed         \* 1313-1315
        ELSE IF ~OuterSuccess(response.body) THEN failed     \* 1299-1302
        ELSE LET inner == InnerOf(response.body)
             IN  IF GetRaises(inner) THEN failed             \* 1313-1315
                 ELSE IF ~InnerSuccess(inner) THEN failed    \* 1295-1298
                 ELSE LET config == Get(inner, "config", "")
                          version == Get(inner, "version", "")
                          stored == [f EXCEPT !.cached_config = config,
                                              !.cached_version = version]
                      IN  IF IntRaises(PersistDurationOperand(inner))
                          THEN [stored EXCEPT !.ret = FetchFailure]
                          ELSE [stored EXCEPT
                                  !.persist_duration =
                                      IntOf(PersistDurationOperand(inner)),
                                  !.persist_display = PersistDisplayOf(inner),
                                  !.ret = [ok |-> TRUE, config |-> config,
                                           version |-> version]]

\* What the server, or whatever answers on its port, can return.
InnerObjects ==
    {JsonObject(s @@ c @@ v @@ d @@ p) :
        s \in {NoKeys, [success |-> FALSE], [success |-> TRUE]},
        c \in {NoKeys, [config |-> "cfgA"]},
        v \in {NoKeys, [version |-> "v2"]},
        d \in {NoKeys, [persist_duration |-> JsonInt(30)],
               [persist_duration |-> JsonStr("45")],
               [persist_duration |-> JsonStr("abc")],
               [persist_duration |-> JsonNull]},
        p \in {NoKeys, [persist_display |-> JsonStr("countdown")]}}
ResponseBodies ==
    {NotJson, JsonNonObject,
     JsonObject(NoKeys),
     JsonObject([success |-> FALSE]),
     JsonObject([success |-> TRUE]),
     JsonObject([success |-> TRUE, data |-> JsonNonObject])}
    \cup {JsonObject([success |-> TRUE, data |-> inner]) :
              inner \in InnerObjects}
    \cup {JsonObject([success |-> FALSE, data |-> inner]) :
              inner \in {JsonObject([success |-> TRUE, config |-> "cfgA",
                                     version |-> "v2"])}}
Responses ==
    {[transport |-> t, body |-> NotJson] :
        t \in {"HTTPError", "URLError", "timeout"}}
    \cup {[transport |-> "ok", body |-> b] : b \in ResponseBodies}

\* How many calls of fetch() the model makes.
MaxFetches == 2

\* __init__, lines 1261-1268.
FetchIdle ==
    /\ fetcher = [cached_config |-> "", cached_version |-> "",
                  persist_duration |-> 0, persist_display |-> "freeze",
                  ret |-> FetchFailure]
    /\ ftResponse = [transport |-> "timeout", body |-> NotJson]
    /\ ftBefore = fetcher
    /\ ftCount = 0

\* One call of fetch().
FetchCall ==
    /\ ftCount < MaxFetches
    /\ \E response \in Responses :
        /\ ftResponse' = response
        /\ ftBefore' = fetcher
        /\ fetcher' = Fetched(fetcher, response)
    /\ ftCount' = ftCount + 1
    /\ UNCHANGED notFetch

NextFetch == FetchCall

----------------------------------------------------------------------------
(***************************************************************************)
(* RemoteSpectrumOutput: the smoother of the spectrum bars.  A decay rate  *)
(* is a number of hundredths (0.95 is 95) or NaN.  A bar height is an      *)
(* integer number of 1/Scale units: with the rates 0.5 and 0.75 every      *)
(* product the model reaches is exact at that scale, as it is in binary    *)
(* floating point; with the other rates a product is cut to 1/Scale.       *)
(***************************************************************************)
\* How many calls of update() the model makes, and how many bars there are.
MaxTicks == 3
NumBars == 3

RECURSIVE Pow(_, _)
Pow(b, e) == IF e = 0 THEN 1 ELSE b * Pow(b, e - 1)
\* (update() decays a bar at most twice)
Scale == Pow(4, 2 * MaxTicks)

Num(v) == [nan |-> FALSE, v |-> v]
NaN == [nan |-> TRUE, v |-> 0]
\* Python's a < b on floats: false when either is NaN.
Less(a, b) == ~a.nan /\ ~b.nan /\ a.v < b.v
\* Python's min(a, b) and max(a, b): the first argument unless the second
\* is smaller (larger).
PyMin(a, b) == IF Less(b, a) THEN b ELSE a
PyMax(a, b) == IF Less(a, b) THEN b ELSE a

ClampDecayRateUpperOnly(decay_rate) == PyMin(Num(99), decay_rate)
\* Line 2150: max(0.5, min(0.99, decay_rate)).
ClampDecayRate(decay_rate) == PyMax(Num(50), PyMin(Num(99), decay_rate))

DEFAULT_DECAY_RATE == Num(95)
\* The decay rate of the client configuration: the file's value, or the
\* default when the key is missing (3006), overridden by --decay-rate when
\* that is given (3480-3481).  An option is <<>> or <<value>>.
ConfiguredDecayRate(file, cli) ==
    IF cli # <<>> THEN cli[1]
    ELSE IF file # <<>> THEN file[1] ELSE DEFAULT_DECAY_RATE
\* What the wizards store in the file (498-500, 965-967).
WizardDecayRate(input) == ClampDecayRate(input)

\* Lines 2383-2386 for one bar: multiply, snap to 0 below 0.5.
Decay(x, rate) ==
    IF x * rate < 50 * Scale THEN 0 ELSE (x * rate) \div 100
DecayAll(local, rate) == [i \in DOMAIN local |-> Decay(local[i], rate)]

Abs(x) == IF x < 0 THEN -x ELSE x
Min2(a, b) == IF a < b THEN a ELSE b
MaxOf(bins) == CHOOSE m \in {bins[i] : i \in DOMAIN bins} :
                   \A i \in DOMAIN bins : bins[i] <= m

ServerDataChangedAlways(bins, prev) == bins # <<>>
\* Lines 2356-2365: server_data_changed.  prev is <<>> for None.
ServerDataChanged(bins, prev) ==
    IF bins # <<>> /\ prev # <<>>
    THEN \E i \in 1..Min2(Len(bins), Len(prev)) : Abs(bins[i] - prev[i]) > 1
    ELSE bins # <<>>

IsBurstAllEqual(bins) ==
    /\ Len(bins) >= 2
    /\ MaxOf(bins) > 50
    /\ \A i \in DOMAIN bins : bins[i] = MaxOf(bins)
\* Lines 2371-2373: the "all bars at max" packet.
IsBurst(bins) ==
    /\ Len(bins) >= 2
    /\ MaxOf(bins) > 50
    /\ \A i \in DOMAIN bins : Abs(bins[i] - MaxOf(bins)) <= 2

RiseAlways(local, bins) ==
    [i \in DOMAIN local |-> IF i <= Len(bins) THEN bins[i] * Scale ELSE local[i]]
\* Lines 2389-2394: a bar rises to a higher server value.
Rise(local, bins) ==
    [i \in DOMAIN local |->
        IF i <= Len(bins) /\ bins[i] * Scale > local[i]
        THEN bins[i] * Scale ELSE local[i]]

\* Lines 2352-2394 of update(): the fields after a tick that read bins.
Smoothed(s, bins) ==
    LET changed == ServerDataChanged(bins, s.prev_server_bins)
        burst == bins # <<>> /\ IsBurst(bins)
        afterBurst == IF burst THEN DecayAll(s.local_bins, s.decay_rate)
                      ELSE s.local_bins
        used == IF burst THEN <<>> ELSE bins
        decayed == DecayAll(afterBurst, s.decay_rate)
    IN  [s EXCEPT
            !.prev_server_bins = IF bins # <<>> THEN bins ELSE @,
            !.local_bins = IF used # <<>> /\ changed
                           THEN Rise(decayed, used) ELSE decayed]

\* What get_bins() of the receiver can return to a tick.
SmootherFrames ==
    {<<>>, <<80, 80, 81>>, <<10, 60, 5>>, <<11, 61, 6>>, <<40, 20, 5>>,
     <<60, 59>>, <<90>>}
DecayRates == {NaN, Num(0), Num(50), Num(75), Num(100)}
CliDecayRates == {Num(25), Num(99), NaN}
DecayOptions(rates) == {<<>>} \cup {<<r>> : r \in rates}

\* Before the object exists.
SmootherIdle ==
    /\ smoother = [local_bins |-> <<>>, prev_server_bins |-> <<>>,
                   decay_rate |-> 0]
    /\ smConfigured = DEFAULT_DECAY_RATE
    /\ smPc = "none"
    /\ smBins = <<>>
    /\ smChanged = FALSE
    /\ smBefore = smoother
    /\ smFrames = <<>>
    /\ smCount = 0

\* main() and __init__: lines 3480-3481, 3006, 2147-2150.
SmootherConstruct ==
    /\ smPc = "none"
    /\ \E file \in DecayOptions(DecayRates \cup
                                {WizardDecayRate(r) : r \in DecayRates}),
          cli \in DecayOptions(CliDecayRates) :
        /\ smConfigured' = ConfiguredDecayRate(file, cli)
        /\ smoother' = [smoother EXCEPT
               !.decay_rate = ClampDecayRate(ConfiguredDecayRate(file, cli)).v]
    /\ smPc' = "constructed"
    /\ UNCHANGED <<smBins, smChanged, smBefore, smFrames, smCount>>
    /\ UNCHANGED notSmoother

\* start(), line 2294: the bars start at 0.
SmootherStart ==
    /\ smPc = "constructed"
    /\ smoother' = [smoother EXCEPT !.local_bins = [i \in 1..NumBars |-> 0]]
    /\ smPc' = "started"
    /\ UNCHANGED <<smConfigured, smBins, smChanged, smBefore, smFrames, smCount>>
    /\ UNCHANGED notSmoother

\* update() before start(): it returns at 2323-2327 or 2337-2338.
SmootherUpdateEarly ==
    /\ smPc = "constructed"
    /\ smCount < MaxTicks
    /\ smCount' = smCount + 1
    /\ UNCHANGED <<smoother, smConfigured, smPc, smBins, smChanged, smBefore,
                   smFrames>>
    /\ UNCHANGED notSmoother

\* update() after start(): one tick of the smoother.
SmootherUpdate ==
    /\ smPc = "started"
    /\ smCount < MaxTicks
    /\ \E bins \in SmootherFrames :
        /\ smBins' = bins
        /\ smChanged' = ServerDataChanged(bins, smoother.prev_server_bins)
        /\ smoother' = Smoothed(smoother, bins)
        /\ smFrames' = Append(smFrames, bins)
    /\ smBefore' = smoother
    /\ smCount' = smCount + 1
    /\ UNCHANGED <<smConfigured, smPc>>
    /\ UNCHANGED notSmoother

NextSmoother ==
    SmootherConstruct \/ SmootherStart \/ SmootherUpdateEarly \/ SmootherUpdate

----------------------------------------------------------------------------
(***************************************************************************)
(* PersistManager: the mirror of the server's persist signal.  The render  *)
(* thread calls check_metadata_status, update_settings and cleanup; each   *)
(* threading.Timer runs expire_persist on a thread of its own, with no     *)
(* lock, so the statements of the two interleave.  A timer is a record in  *)
(* psTimers and _persist_timer is its index, 0 for None.  The file system  *)
(* is taken to work: open() and os.remove() succeed.                       *)
(***************************************************************************)
\* How many calls of check_metadata_status and of update_settings the model
\* makes.
MaxStatusUpdates == 4
MaxSettingsUpdates == 1

Statuses == {"play", "pause", "stop", ""}
Durations == {0, 5}
Displays == {"", "countdown"}
NoTimer == 0
NoFile == <<>>

\* update_settings, lines 1353-1360: the fields after the call.
SettingsUpdatedAndTimerDropped(p, persist_duration, persist_display) ==
    [p EXCEPT !.persist_duration = persist_duration,
              !._persist_timer = NoTimer]
SettingsUpdated(p, persist_duration, persist_display) ==
    [p EXCEPT !.persist_duration = persist_duration,
              !.persist_display = IF persist_display = "" THEN "freeze"
                                  ELSE persist_display]

IgnoredAsVolatileNever(status, volatile) == FALSE
\* Line 1387: a transitional stop or pause.
IgnoredAsVolatile(status, volatile) ==
    volatile /\ status \in {"stop", "pause"}

\* Line 1396: stop or pause that follows play.
FromPlay(p, status) ==
    status \in {"stop", "pause"} /\ p._last_status = "play"

\* Lines 1373 and 1387-1402: what a call of check_metadata_status goes on
\* to do.
StatusOp(p, status, volatile) ==
    IF status = p._last_status THEN "same"
    ELSE IF IgnoredAsVolatile(status, volatile) THEN "volatile"
    ELSE IF status = "play" THEN "play"
    ELSE IF FromPlay(p, status)
         THEN IF p.persist_duration > 0 THEN "countdown" ELSE "remove"
    ELSE "other"

\* Line 1414-1415: duration:timestamp_ms:display_mode.
PersistContent(p, now) ==
    <<[duration |-> p.persist_duration, timestamp |-> now,
       display |-> p.persist_display]>>

\* threading.Timer(interval, expire_persist), line 1431.
NewTimer(p, now) ==
    [state |-> "created", interval |-> p.persist_duration, born |-> now]

Snapshot == [persist |-> persist, file |-> psFile, timers |-> psTimers]

\* __init__, lines 1346-1349, with no call made yet.
PersistIdle ==
    /\ persist = [persist_duration |-> 0, persist_display |-> "freeze",
                  _persist_timer |-> NoTimer, _last_status |-> "None"]
    /\ psFile = NoFile
    /\ psTimers = <<>>
    /\ psPc = "idle"
    /\ psCall = [status |-> "", volatile |-> FALSE, op |-> "none"]
    /\ psBefore = Snapshot
    /\ psAfter = Snapshot
    /\ psCount = 0
    /\ psSettings = 0
    /\ psRaised = "none"

\* PersistManager(config_fetcher.persist_duration, ...), lines 2846-2849.
PersistStart ==
    /\ \E d \in Durations :
        persist = [persist_duration |-> d, persist_display |-> "freeze",
                   _persist_timer |-> NoTimer, _last_status |-> "None"]
    /\ psFile = NoFile
    /\ psTimers = <<>>
    /\ psPc = "idle"
    /\ psCall = [status |-> "", volatile |-> FALSE, op |-> "none"]
    /\ psBefore = Snapshot
    /\ psAfter = Snapshot
    /\ psCount = 0
    /\ psSettings = 0
    /\ psRaised = "none"

\* update_settings(), called by the render thread between two frames.
PersistUpdateSettings ==
    /\ psPc = "idle"
    /\ psSettings < MaxSettingsUpdates
    /\ \E d \in Durations, m \in Displays :
        persist' = SettingsUpdated(persist, d, m)
    /\ psCall' = [status |-> "", volatile |-> FALSE, op |-> "settings"]
    /\ psBefore' = Snapshot
    /\ psAfter' = [Snapshot EXCEPT !.persist = persist']
    /\ psSettings' = psSettings + 1
    /\ UNCHANGED <<psFile, psTimers, psPc, psCount, psRaised>>
    /\ UNCHANGED notPersist

\* check_metadata_status(), lines 1370-1374, and the tests of
\* _on_status_change, 1387-1402.
PersistCall ==
    /\ psPc = "idle"
    /\ psCount < MaxStatusUpdates
    /\ \E status \in Statuses, volatile \in BOOLEAN :
        LET op == StatusOp(persist, status, volatile) IN
        /\ psCall' = [status |-> status, volatile |-> volatile, op |-> op]
        /\ psPc' = CASE op \in {"same", "volatile"} -> "idle"
                     [] op \in {"play", "countdown"} -> "cancel_check"
                     [] op = "remove" -> "file"
                     [] OTHER -> "store"
        /\ psAfter' = IF op \in {"same", "volatile"} THEN Snapshot ELSE psAfter
    /\ psBefore' = Snapshot
    /\ psCount' = psCount + 1
    /\ psRaised' = "none"
    /\ UNCHANGED <<persist, psFile, psTimers, psSettings>>
    /\ UNCHANGED notPersist

\* cleanup(), lines 1450-1453, at shutdown.
PersistCleanup ==
    /\ psPc = "idle"
    /\ psCall' = [status |-> "", volatile |-> FALSE, op |-> "cleanup"]
    /\ psPc' = "cancel_check"
    /\ psBefore' = Snapshot
    /\ psRaised' = "none"
    /\ UNCHANGED <<persist, psFile, psTimers, psAfter, psCount, psSettings>>
    /\ UNCHANGED notPersist

\* _cancel_timer, line 1438: if self._persist_timer.
PersistCancelCheck ==
    /\ psPc = "cancel_check"
    /\ psPc' = IF persist._persist_timer # NoTimer THEN "cancel" ELSE "file"
    /\ UNCHANGED <<persist, psFile, psTimers, psCall, psBefore, psAfter,
                   psCount, psSettings, psRaised>>
    /\ UNCHANGED notPersist

\* Timer.cancel(): it stops a timer that has not fired yet.
Cancelled(timers, id) ==
    IF timers[id].state \in {"created", "armed"}
    THEN [timers EXCEPT ![id].state = "cancelled"] ELSE timers

\* _cancel_timer, line 1439: self._persist_timer.cancel().  The attribute
\* is loaded again: it is None when a callback cleared it since the test.
PersistCancel ==
    /\ psPc = "cancel"
    /\ IF persist._persist_timer = NoTimer
       THEN /\ psRaised' = "AttributeError"
            /\ psPc' = IF psCall.op = "cleanup" THEN "closed" ELSE "idle"
            /\ psAfter' = Snapshot
            /\ UNCHANGED psTimers
       ELSE /\ psTimers' = Cancelled(psTimers, persist._persist_timer)
            /\ psPc' = "clear"
            /\ UNCHANGED <<psRaised, psAfter>>
    /\ UNCHANGED <<persist, psFile, psCall, psBefore, psCount, psSettings>>
    /\ UNCHANGED notPersist

\* _cancel_timer, line 1440: self._persist_timer = None.
PersistCancelClear ==
    /\ psPc = "clear"
    /\ persist' = [persist EXCEPT !._persist_timer = NoTimer]
    /\ psPc' = "file"
    /\ UNCHANGED <<psFile, psTimers, psCall, psBefore, psAfter, psCount,
                   psSettings, psRaised>>
    /\ UNCHANGED notPersist

\* _remove_persist_file (1393, 1402, 1453) or the write of 1417-1419.
PersistFile ==
    /\ psPc = "file"
    /\ psFile' = IF psCall.op = "countdown"
                 THEN PersistContent(persist, psCount) ELSE NoFile
    /\ psPc' = CASE psCall.op = "countdown" -> "arm"
                 [] psCall.op = "cleanup" -> "closed"
                 [] OTHER -> "store"
    /\ psAfter' = IF psCall.op = "cleanup"
                  THEN [Snapshot EXCEPT !.file = NoFile] ELSE psAfter
    /\ UNCHANGED <<persist, psTimers, psCall, psBefore, psCount, psSettings,
                   psRaised>>
    /\ UNCHANGED notPersist

\* Line 1431: self._persist_timer = threading.Timer(...).
PersistArmCreate ==
    /\ psPc = "arm"
    /\ psTimers' = Append(psTimers, NewTimer(persist, psCount))
    /\ persist' = [persist EXCEPT !._persist_timer = Len(psTimers) + 1]
    /\ psPc' = "start"
    /\ UNCHANGED <<psFile, psCall, psBefore, psAfter, psCount, psSettings,
                   psRaised>>
    /\ UNCHANGED notPersist

\* Lines 1432-1433: self._persist_timer.daemon = True; .start().  The
\* attribute is loaded again.
PersistArmStart ==
    /\ psPc = "start"
    /\ IF persist._persist_timer = NoTimer
       THEN /\ psRaised' = "AttributeError"
            /\ psPc' = "idle"
            /\ psAfter' = Snapshot
            /\ UNCHANGED psTimers
       ELSE /\ psTimers' = [psTimers EXCEPT
                               ![persist._persist_timer].state = "armed"]
            /\ psPc' = "store"
            /\ UNCHANGED <<psRaised, psAfter>>
    /\ UNCHANGED <<persist, psFile, psCall, psBefore, psCount, psSettings>>
    /\ UNCHANGED notPersist

\* Line 1404: self._last_status = status, and the return.
PersistStore ==
    /\ psPc = "store"
    /\ persist' = [persist EXCEPT !._last_status = psCall.status]
    /\ psPc' = "idle"
    /\ psAfter' = [Snapshot EXCEPT !.persist = persist']
    /\ UNCHANGED <<psFile, psTimers, psCall, psBefore, psCount, psSettings,
                   psRaised>>
    /\ UNCHANGED notPersist

timerFrame == <<psPc, psCall, psBefore, psAfter, psCount, psSettings, psRaised>>

\* Timer.run: the interval has passed and the timer was not cancelled.  The
\* interval is a second or more: the call that armed the timer has returned.
TimerFire ==
    /\ \E id \in DOMAIN psTimers :
        /\ psTimers[id].state = "armed"
        /\ ~(psPc \notin {"idle", "closed"} /\ psTimers[id].born = psCount)
        /\ psTimers' = [psTimers EXCEPT ![id].state = "fired"]
    /\ UNCHANGED <<persist, psFile>>
    /\ UNCHANGED timerFrame
    /\ UNCHANGED notPersist

\* expire_persist, line 1427: self._remove_persist_file().
ExpireRemove ==
    /\ \E id \in DOMAIN psTimers :
        /\ psTimers[id].state = "fired"
        /\ psTimers' = [psTimers EXCEPT ![id].state = "removed"]
    /\ psFile' = NoFile
    /\ UNCHANGED persist
    /\ UNCHANGED timerFrame
    /\ UNCHANGED notPersist

\* expire_persist, line 1429: self._persist_timer = None.
ExpireClear ==
    /\ \E id \in DOMAIN psTimers :
        /\ psTimers[id].state = "removed"
        /\ psTimers' = [psTimers EXCEPT ![id].state = "done"]
    /\ persist' = [persist EXCEPT !._persist_timer = NoTimer]
    /\ UNCHANGED psFile
    /\ UNCHANGED timerFrame
    /\ UNCHANGED notPersist

NextPersist ==
    \/ PersistUpdateSettings \/ PersistCall \/ PersistCleanup
    \/ PersistCancelCheck \/ PersistCancel \/ PersistCancelClear
    \/ PersistFile \/ PersistArmCreate \/ PersistArmStart \/ PersistStore
    \/ TimerFire \/ ExpireRemove \/ ExpireClear

----------------------------------------------------------------------------
(***************************************************************************)
(* LevelReceiver's lifetime: start(), the heartbeat loop, the receive loop *)
(* (here only its reads of _running and of the socket) and stop().  lcSent *)
(* is the datagrams handed to sendto, in order: an exception of sendto is  *)
(* swallowed by each _send_* and changes nothing.                          *)
(***************************************************************************)
\* How many times the heartbeat loop sleeps, and how many calls of stop().
MaxHeartbeats == 2
MaxStops == 2

StartOrderRegisterLast(at) ==
    CASE at = "socket" -> "bind"
      [] at = "bind" -> "flag"
      [] at = "flag" -> "hb_thread"
      [] at = "hb_thread" -> "rx_thread"
      [] at = "rx_thread" -> "register"
      [] at = "register" -> "done"
\* The statements of start() in order, lines 1903-1919.
StartOrder(at) ==
    CASE at = "socket" -> "bind"
      [] at = "bind" -> "flag"
      [] at = "flag" -> "register"
      [] at = "register" -> "hb_thread"
      [] at = "hb_thread" -> "rx_thread"
      [] at = "rx_thread" -> "done"

\* The guard of every _send_*: self.sock is an object (a closed socket is
\* one too) and server_ip is set; sendto on a closed socket raises.
Sends(r) == r.sock = "bound"
SentAfter(sent, r, type) == IF Sends(r) THEN Append(sent, type) ELSE sent

\* __init__, lines 1825-1830.
LifeIdle ==
    /\ receiver = [sock |-> "None", _running |-> FALSE, _thread |-> "None",
                   _heartbeat_thread |-> "None"]
    /\ lcStart = "socket"
    /\ lcHb = "none"
    /\ lcRx = "none"
    /\ lcStop = "none"
    /\ lcSent = <<>>
    /\ lcBeats = 0
    /\ lcStops = 0
    /\ lcRaised = "none"

lifeFrame(changed) ==
    /\ \/ "receiver" \in changed \/ UNCHANGED receiver
    /\ \/ "lcStart" \in changed \/ UNCHANGED lcStart
    /\ \/ "lcHb" \in changed \/ UNCHANGED lcHb
    /\ \/ "lcRx" \in changed \/ UNCHANGED lcRx
    /\ \/ "lcStop" \in changed \/ UNCHANGED lcStop
    /\ \/ "lcSent" \in changed \/ UNCHANGED lcSent
    /\ \/ "lcBeats" \in changed \/ UNCHANGED lcBeats
    /\ \/ "lcStops" \in changed \/ UNCHANGED lcStops
    /\ \/ "lcRaised" \in changed \/ UNCHANGED lcRaised
    /\ UNCHANGED notLife

\* Lines 1903-1905: socket(), setsockopt, settimeout.
StartSocket ==
    /\ lcStart = "socket"
    /\ receiver' = [receiver EXCEPT !.sock = "open"]
    /\ lcStart' = StartOrder("socket")
    /\ lifeFrame({"receiver", "lcStart"})

\* Line 1906: bind.
StartBind ==
    /\ lcStart = "bind"
    /\ receiver' = [receiver EXCEPT !.sock = "bound"]
    /\ lcStart' = StartOrder("bind")
    /\ lifeFrame({"receiver", "lcStart"})

\* Line 1906: bind raises (the port is taken) and start() is left.
StartBindFails ==
    /\ lcStart = "bind"
    /\ lcStart' = "raised"
    /\ lcRaised' = "OSError"
    /\ lifeFrame({"lcStart", "lcRaised"})

\* Line 1908: self._running = True.
StartRunning ==
    /\ lcStart = "flag"
    /\ receiver' = [receiver EXCEPT !._running = TRUE]
    /\ lcStart' = StartOrder("flag")
    /\ lifeFrame({"receiver", "lcStart"})

\* Line 1911: _send_registration(), lines 1852-1866.
StartRegister ==
    /\ lcStart = "register"
    /\ lcSent' = SentAfter(lcSent, receiver, "register")
    /\ lcStart' = StartOrder("register")
    /\ lifeFrame({"lcSent", "lcStart"})

\* Lines 1914-1915: the heartbeat thread.
StartHeartbeatThread ==
    /\ lcStart = "hb_thread"
    /\ receiver' = [receiver EXCEPT !._heartbeat_thread = "thread"]
    /\ lcHb' = "test"
    /\ lcStart' = StartOrder("hb_thread")
    /\ lifeFrame({"receiver", "lcHb", "lcStart"})

\* Lines 1918-1919: the receive thread.
StartReceiveThread ==
    /\ lcStart = "rx_thread"
    /\ receiver' = [receiver EXCEPT !._thread = "thread"]
    /\ lcRx' = "test"
    /\ lcStart' = StartOrder("rx_thread")
    /\ lifeFrame({"receiver", "lcRx", "lcStart"})

\* _heartbeat_loop, line 1896: while self._running.
HeartbeatTest ==
    /\ lcHb = "test"
    /\ lcHb' = IF receiver._running THEN "sleep" ELSE "ended"
    /\ lifeFrame({"lcHb"})

\* Line 1897: time.sleep(HEARTBEAT_INTERVAL) returns.  The sleeps that end
\* while the receiver runs are counted and capped; one that ends after
\* stop() cleared the flag is not.
HeartbeatSleep ==
    /\ lcHb = "sleep"
    /\ lcBeats < MaxHeartbeats \/ ~receiver._running
    /\ lcBeats' = IF lcBeats < MaxHeartbeats THEN lcBeats + 1 ELSE lcBeats
    /\ lcHb' = "retest"
    /\ lifeFrame({"lcHb", "lcBeats"})

\* Line 1898: if self._running.
HeartbeatRetest ==
    /\ lcHb = "retest"
    /\ lcHb' = IF receiver._running THEN "send" ELSE "test"
    /\ lifeFrame({"lcHb"})

\* Line 1899: _send_heartbeat(), lines 1868-1879.
HeartbeatSend ==
    /\ lcHb = "send"
    /\ lcSent' = SentAfter(lcSent, receiver, "heartbeat")
    /\ lcHb' = "test"
    /\ lifeFrame({"lcSent", "lcHb"})

\* _receive_loop, line 1924: while self._running.
ReceiveTest ==
    /\ lcRx = "test"
    /\ lcRx' = IF receiver._running THEN "recv" ELSE "ended"
    /\ lifeFrame({"lcRx"})

\* Lines 1926-1936: recvfrom returns a datagram or times out.
ReceiveRecv ==
    /\ lcRx = "recv"
    /\ lcRx' = "test"
    /\ lifeFrame({"lcRx"})

\* Lines 1937-1940: recvfrom raises on the closed socket; break.
ReceiveBreak ==
    /\ lcRx = "recv"
    /\ receiver.sock = "closed"
    /\ lcRx' = "ended"
    /\ lifeFrame({"lcRx"})

\* stop() is called: by the signal handler (3596) or at the end of main
\* (3635), after start() returned.
StopCall ==
    /\ lcStart = "done"
    /\ lcStop \in {"none", "done"}
    /\ lcStops < MaxStops
    /\ lcStops' = lcStops + 1
    /\ lcStop' = "unregister"
    /\ lifeFrame({"lcStop", "lcStops"})

\* Line 1944: _send_unregister(), lines 1881-1892.
StopUnregister ==
    /\ lcStop = "unregister"
    /\ lcSent' = SentAfter(lcSent, receiver, "unregister")
    /\ lcStop' = "flag"
    /\ lifeFrame({"lcSent", "lcStop"})

StopFlagKeepsRunning ==
    /\ lcStop = "flag"
    /\ lcStop' = "close"
    /\ lifeFrame({"lcStop"})

\* Line 1946: self._running = False.
StopFlag ==
    /\ lcStop = "flag"
    /\ receiver' = [receiver EXCEPT !._running = FALSE]
    /\ lcStop' = "close"
    /\ lifeFrame({"receiver", "lcStop"})

\* Lines 1947-1948: self.sock.close().
StopClose ==
    /\ lcStop = "close"
    /\ receiver' = [receiver EXCEPT !.sock = "closed"]
    /\ lcStop' = "join_rx"
    /\ lifeFrame({"receiver", "lcStop"})

\* Lines 1949-1950: self._thread.join(timeout=2.0) returns: the thread has
\* ended or the two seconds have passed.
StopJoinReceive ==
    /\ lcStop = "join_rx"
    /\ lcStop' = "join_hb"
    /\ lifeFrame({"lcStop"})

\* Lines 1951-1952: self._heartbeat_thread.join(timeout=2.0) returns.
StopJoinHeartbeat ==
    /\ lcStop = "join_hb"
    /\ lcStop' = "done"
    /\ lifeFrame({"lcStop"})

NextLife ==
    \/ StartSocket \/ StartBind \/ StartBindFails \/ StartRunning
    \/ StartRegister \/ StartHeartbeatThread \/ StartReceiveThread
    \/ HeartbeatTest \/ HeartbeatSleep \/ HeartbeatRetest \/ HeartbeatSend
    \/ ReceiveTest \/ ReceiveRecv \/ ReceiveBreak
    \/ StopCall \/ StopUnregister \/ StopFlag \/ StopClose
    \/ StopJoinReceive \/ StopJoinHeartbeat

----------------------------------------------------------------------------
(***************************************************************************)
(* The specifications.                                                     *)
(***************************************************************************)
InitResolve == ResolveStart /\ LevelIdle /\ ReconIdle /\ SpectrumIdle /\ DiscoveryIdle
    /\ WatcherIdle /\ FetchIdle /\ SmootherIdle /\ PersistIdle /\ LifeIdle
SpecResolve == InitResolve /\ [][NextResolve]_vars

InitLevel == LevelIdle /\ ResolveIdle /\ ReconIdle /\ SpectrumIdle /\ DiscoveryIdle
    /\ WatcherIdle /\ FetchIdle /\ SmootherIdle /\ PersistIdle /\ LifeIdle
SpecLevel == InitLevel /\ [][NextLevel]_vars

Init == ReconStart /\ ResolveIdle /\ LevelIdle /\ SpectrumIdle /\ DiscoveryIdle
    /\ WatcherIdle /\ FetchIdle /\ SmootherIdle /\ PersistIdle /\ LifeIdle
Next == NextRecon
Spec == Init /\ [][Next]_vars

\* The render thread's own steps.  DisplayReturn is left out: the display
\* returns on the callback's True or when the user leaves it, and the user
\* need not.
RenderStep ==
    \/ InitialSetup \/ SyncEnd \/ StartupRebuild \/ StartupSkip \/ LoopTop
    \/ LoopStartDisplay \/ Poll \/ PollFetch \/ PollBelief \/ AfterDisplay
    \/ PostFetch \/ Rebuild

\* The server announces again and again (the listener thread handles each
\* datagram), and the render thread keeps running: start_display_output
\* polls the callback once per frame.
ReconFairness == WF_vars(Announce) /\ WF_vars(RenderStep)
SpecFair == Spec /\ ReconFairness

InitSpectrum == SpectrumIdle /\ ResolveIdle /\ LevelIdle /\ ReconIdle /\ DiscoveryIdle
    /\ WatcherIdle /\ FetchIdle /\ SmootherIdle /\ PersistIdle /\ LifeIdle
SpecSpectrum == InitSpectrum /\ [][NextSpectrum]_vars

InitDiscovery ==
    DiscoveryIdle /\ ResolveIdle /\ LevelIdle /\ ReconIdle /\ SpectrumIdle
    /\ WatcherIdle /\ FetchIdle /\ SmootherIdle /\ PersistIdle /\ LifeIdle
SpecDiscovery == InitDiscovery /\ [][NextDiscovery]_vars

InitWatcher ==
    WatcherStart /\ WatcherIdle /\ ResolveIdle /\ LevelIdle /\ SpectrumIdle
    /\ DiscoveryIdle /\ FetchIdle /\ SmootherIdle /\ PersistIdle /\ LifeIdle
SpecWatcher == InitWatcher /\ [][NextWatcher]_vars

InitFetch ==
    FetchIdle /\ ResolveIdle /\ LevelIdle /\ ReconIdle /\ SpectrumIdle
    /\ DiscoveryIdle /\ WatcherIdle /\ SmootherIdle /\ PersistIdle /\ LifeIdle
SpecFetch == InitFetch /\ [][NextFetch]_vars

InitSmoother ==
    SmootherIdle /\ ResolveIdle /\ LevelIdle /\ ReconIdle /\ SpectrumIdle
    /\ DiscoveryIdle /\ WatcherIdle /\ FetchIdle /\ PersistIdle /\ LifeIdle
SpecSmoother == InitSmoother /\ [][NextSmoother]_vars

InitPersist ==
    PersistStart /\ ResolveIdle /\ LevelIdle /\ ReconIdle /\ SpectrumIdle
    /\ DiscoveryIdle /\ WatcherIdle /\ FetchIdle /\ SmootherIdle /\ LifeIdle
SpecPersist == InitPersist /\ [][NextPersist]_vars

InitLife ==
    LifeIdle /\ ResolveIdle /\ LevelIdle /\ ReconIdle /\ SpectrumIdle
    /\ DiscoveryIdle /\ WatcherIdle /\ FetchIdle /\ SmootherIdle /\ PersistIdle
SpecLife == InitLife /\ [][NextLife]_vars
\* The three threads are scheduled: main (inside stop()), the heartbeat
\* thread and the receive thread each take their next step in the end.
LifeFairness ==
    /\ WF_vars(StopUnregister \/ StopFlag \/ StopClose
                \/ StopJoinReceive \/ StopJoinHeartbeat)
    /\ WF_vars(HeartbeatTest \/ HeartbeatSleep \/ HeartbeatRetest
                \/ HeartbeatSend)
    /\ WF_vars(ReceiveTest \/ ReceiveRecv)
SpecLifeFair == SpecLife /\ LifeFairness

----------------------------------------------------------------------------
(***************************************************************************)
(* The claims.                                                             *)
(***************************************************************************)

\* The step in which fetch() returns inside _check_reload_callback.
CallbackFetched == pc = "cb_fetch" /\ pc' # "cb_fetch"

(***************************************************************************)
(* C1: in _check_reload_callback, when reload_requested is set, the fetch  *)
(* succeeds (with a config) and the resolved (folder, meter) equals the    *)
(* pipeline's current one: reload_requested and the candidate are cleared, *)
(* then the belief is set to the resolved folder and meter (and the        *)
(* fetched version), the verdict is "no reload", and the pipeline is left  *)
(* as it is.                                                               *)
(***************************************************************************)
C1_SameSelectionNoReload ==
    /\ [][(CallbackFetched /\ lastFetch' = "ok" /\ resolved' = pm)
            => /\ reload_requested
               /\ ~reload_requested'
               /\ new_active_meter' = ""
               /\ pc' = "cb_belief"
               /\ pm' = pm]_vars
    /\ [][(pc = "cb_belief" /\ pc' # "cb_belief")
            => /\ pc' = "display"
               /\ lastPoll' = "same"
               /\ engine' = "noreload"
               /\ reload_check_done' /\ reload_should_exit' = "False"
               /\ current_version_holder' =
                      [version |-> cached_version,
                       active_meter |-> resolved[2],
                       active_meter_folder |-> resolved[1]]
               /\ resolved = pm
               /\ pm' = pm]_vars

\* A version tick (the server went from v1 to v2 with the same selection)
\* answered "no reload": the belief has the new version, the pipeline is
\* the first one.
C1_Witness ==
    /\ pc = "display"
    /\ lastPoll = "same"
    /\ srvChanges = 1
    /\ srv.version = "v2"
    /\ current_version_holder.version = "v2"
    /\ current_version_holder.active_meter = pm[2]
    /\ ~reload_requested
    /\ built.by = "initial"

(***************************************************************************)
(* C2: in _check_reload_callback, when reload_requested is set, the fetch  *)
(* succeeds (with a config) and the resolved (folder, meter) differs from  *)
(* the pipeline's current one in the folder or in the meter, the verdict   *)
(* is "reload required" (and is memoized as such).                         *)
(***************************************************************************)
C2_OtherSelectionReload ==
    [][(CallbackFetched /\ lastFetch' = "ok"
        /\ (resolved'[1] # pm[1] \/ resolved'[2] # pm[2]))
         => /\ reload_requested
            /\ pc' = "display"
            /\ lastPoll' = "differs"
            /\ engine' = "reload"
            /\ reload_check_done' /\ reload_should_exit' = "True"]_vars

\* The verdict "reload required" for the same folder and another meter.
C2_Witness ==
    /\ pc = "display"
    /\ lastPoll = "differs"
    /\ resolved[1] = pm[1]
    /\ resolved[2] # pm[2]
    /\ reload_should_exit = "True"

(***************************************************************************)
(* C3: a fetch() that fails during reconciliation gives the verdict        *)
(* "reload required" whatever the server's selection is: in the callback   *)
(* the verdict is True (memoized), and in the check after the display loop *)
(* the reload goes ahead.                                                  *)
(***************************************************************************)
C3_FetchFailureReload ==
    /\ [][(CallbackFetched /\ lastFetch' = "fail")
            => /\ pc' = "display"
               /\ engine' = "reload"
               /\ lastPoll' = "fail"
               /\ reload_check_done' /\ reload_should_exit' = "True"
               /\ reload_requested']_vars
    /\ [][(pc = "post_fetch" /\ pc' # "post_fetch" /\ lastFetch' = "fail")
            => /\ pc' = "rebuild"
               /\ engine' = "reload"]_vars

\* The fetch failed while the server's selection resolves to the
\* pipeline's own.
C3_Witness ==
    /\ pc = "display"
    /\ lastPoll = "fail"
    /\ engine = "reload"
    /\ srv.blob.kind = "ok"
    /\ parse_server_meter_state(srv.blob, Templates, active_meter_override,
                                client_override) = pm

(***************************************************************************)
(* C4 (as stated): with a client override configured, reconciliation       *)
(* issues no fetch() for the change signal, and the tuple it resolves is   *)
(* the override whatever the server serves.                                *)
(***************************************************************************)
C4_AsStated ==
    client_override # NoOverride =>
        /\ pc \notin {"cb_fetch", "post_fetch"}
        /\ (lastPoll \in {"same", "differs"} => resolved = client_override)

(***************************************************************************)
(* C5: while reload_requested stays set, the polls of the callback issue   *)
(* at most one fetch, and a poll that finds the verdict memoized returns   *)
(* it without a fetch.                                                     *)
(***************************************************************************)
C5_OneFetchPerSignal ==
    /\ [](signalFetches <= 1)
    /\ [][(pc = "display" /\ reload_requested /\ reload_check_done)
            => /\ pc' # "cb_fetch"
               /\ cached_version' = cached_version
               /\ lastFetch' = lastFetch
               /\ (lastPoll' # lastPoll =>
                     lastPoll' = IF reload_should_exit = "True"
                                 THEN "memo_true" ELSE "memo_false")]_vars

\* A poll answered from the memo, after the one fetch of this request.
C5_Witness ==
    /\ pc = "display"
    /\ reload_requested
    /\ lastPoll = "memo_true"
    /\ signalFetches = 1

(***************************************************************************)
(* C6 (as stated): the pipeline is built again only after the              *)
(* reconciliation engine returned "reload required"; no raw announcement,  *)
(* the first one included, triggers it.                                    *)
(***************************************************************************)
C6_AsStated == built.by # "initial" => built.verdict = "reload"

(***************************************************************************)
(* C6 (amended): once the display loop has started, the pipeline is torn   *)
(* down and built again only after a reconciliation check of this pass of  *)
(* the loop (the callback, then the check after start_display_output       *)
(* returned) found "reload required"; the one rebuild without a verdict is *)
(* at startup, before the display loop, when the first announcement        *)
(* carried an active meter.                                                *)
(***************************************************************************)
C6_RebuildOnVerdict ==
    /\ [](/\ (built.by = "loop" => built.verdict = "reload")
          /\ (built.by = "startup" =>
                first_announcement_received /\ built.verdict = "none"))
    /\ [][pm' # pm =>
            \/ pc = "setup"
            \/ pc = "sync_done" /\ first_announcement_received
                                /\ new_active_meter # ""
            \/ pc = "rebuild" /\ engine = "reload"]_vars
    /\ [][(pc = "post_fetch" /\ pc' = "rebuild") => engine' = "reload"]_vars

\* A pipeline built again in the display loop, on a verdict.
C6_Witness ==
    /\ built = [by |-> "loop", verdict |-> "reload"]
    /\ pc = "display"
    /\ pm # <<"", "random">>

(***************************************************************************)
(* C7 (as stated): every change of the belief sets its active meter and    *)
(* folder to what the engine resolved; the candidate of a raw announcement *)
(* is never copied into it.                                                *)
(***************************************************************************)
C7_AsStated ==
    [][current_version_holder' # current_version_holder =>
         /\ current_version_holder'.active_meter = resolved'[2]
         /\ current_version_holder'.active_meter_folder = resolved'[1]]_vars

(***************************************************************************)
(* C7 (amended): the belief is written by the render thread only, never by *)
(* the listener thread.  Its folder is always a resolved one.  Its active  *)
(* meter is the resolved one after a no-reload verdict and after a         *)
(* (re)build, and at the top of each pass of the display loop it is        *)
(* overwritten by the pending candidate of the announcements, unvalidated, *)
(* when there is one (with the version set to the fetcher's cached one).   *)
(***************************************************************************)
C7_BeliefWrites ==
    [][current_version_holder' # current_version_holder =>
         /\ pc' # pc
         /\ \/ /\ pc # "top"
               /\ current_version_holder'.active_meter = resolved'[2]
               /\ current_version_holder'.active_meter_folder = resolved'[1]
            \/ /\ pc = "top"
               /\ current_version_holder' =
                      [version |-> cached_version,
                       active_meter |->
                           IF new_active_meter # "" THEN new_active_meter
                           ELSE current_version_holder.active_meter,
                       active_meter_folder |->
                           current_version_holder.active_meter_folder]
               /\ current_version_holder'.active_meter_folder = resolved[1]]_vars

\* The candidate m3, which the catalog of the folder rejects, is the
\* belief's active meter.
C7_Witness ==
    /\ pc = "top_b"
    /\ current_version_holder.active_meter = "m3"
    /\ current_version_holder.active_meter_folder = "F1"
    /\ resolved[2] # "m3"

(***************************************************************************)
(* C8 (as stated): with a candidate active meter present, a candidate that *)
(* is a section of the fetched folder's meter catalog is the resolved      *)
(* meter, and one that is not gives the blob's meter field, or "random"    *)
(* when that field is blank; an invalid candidate is never the resolved    *)
(* meter.  Stated for both resolvers, without a client override.           *)
(***************************************************************************)
CatalogSections(folder) ==
    IF folder \in DOMAIN Templates /\ Templates[folder].kind = "ok"
    THEN Templates[folder].sections
    ELSE {}

C8Case ==
    /\ rsPc = "done"
    /\ rsIn.candidate # ""
    /\ rsIn.override = NoOverride
    /\ rsIn.content.kind = "ok"

C8_AsStated ==
    C8Case =>
        LET c == rsIn.candidate
            blobMeter == rsIn.content.meter
            want == IF c \in CatalogSections(rsIn.content.folder) THEN c
                    ELSE IF blobMeter # "" THEN blobMeter ELSE "random"
        IN  /\ rsOut[2] = want
            /\ rsSetup[2] = want
            /\ (c \notin CatalogSections(rsIn.content.folder) => rsOut[2] # c)

(***************************************************************************)
(* C8 (amended): with a candidate present, no client override and a blob   *)
(* with a [current] section: when the folder's meters.txt exists and       *)
(* parses, a candidate among its sections is the resolved meter, and any   *)
(* other candidate gives the blob's meter field when that is non-blank and *)
(* differs from the candidate, else "random" -- so a candidate the catalog *)
(* rejects is never the resolved meter; when the folder is blank or its    *)
(* meters.txt is missing or unreadable, the candidate is the resolved      *)
(* meter unvalidated.  Both resolvers agree.                               *)
(***************************************************************************)
C8_ResolveWithCandidate ==
    C8Case =>
        LET c == rsIn.candidate
            f == rsIn.content.folder
            blobMeter == rsIn.content.meter
            readable == f \in DOMAIN Templates /\ Templates[f].kind = "ok"
            want == IF ~readable THEN c
                    ELSE IF c \in Templates[f].sections THEN c
                    ELSE IF blobMeter # "" /\ blobMeter # c THEN blobMeter
                    ELSE "random"
        IN  /\ rsOut = <<f, want>>
            /\ rsSetup = <<f, want>>
            /\ (readable /\ c \notin Templates[f].sections => rsOut[2] # c)

\* A candidate the readable catalog of the blob's folder rejects, with the
\* blob's meter field equal to it: the resolved meter is "random".
C8_Witness ==
    /\ C8Case
    /\ rsIn.content.folder = "F1"
    /\ rsIn.candidate = "m3"
    /\ rsIn.content.meter = "m3"
    /\ rsOut = <<"F1", "random">>

(***************************************************************************)
(* C9: for every datagram delivered to the level receive loop, once the    *)
(* loop is back at recvfrom: a datagram of exactly 16 bytes leaves         *)
(* get_levels() equal to the (left, right, mono) its bytes 5-8, 9-12 and   *)
(* 13-16 encode (and seq to its first four bytes); a datagram of any other *)
(* length leaves get_levels() and seq as they were.                        *)
(***************************************************************************)
C9_LevelFrameReflected ==
    (rxPc = "recv" /\ rxCount > 0) =>
        IF Len(rxData) = 16
        THEN /\ get_levels = <<F32(Bytes4(rxData, 5)), F32(Bytes4(rxData, 9)),
                               F32(Bytes4(rxData, 13))>>
             /\ levelReceiver.seq = U32(Bytes4(rxData, 1))
        ELSE /\ get_levels = Triple(rxBefore)
             /\ levelReceiver.seq = rxBefore.seq

\* FrameB was applied (seq 258, left 0.5, right -2.0, mono 1.0) and the
\* 17-byte datagram after it was dropped.
C9_Witness ==
    /\ rxPc = "recv"
    /\ rxCount = 2
    /\ Len(rxData) = 17
    /\ levelReceiver.seq = 258
    /\ get_levels = <<[sign |-> 0, exp |-> 126, mant |-> 0],
                      [sign |-> 1, exp |-> 128, mant |-> 0],
                      [sign |-> 0, exp |-> 127, mant |-> 0]>>

(***************************************************************************)
(* C10 (as stated): the tuple get_levels() returns is always the (left,    *)
(* right, mono) of one single received frame, or the initial zeros.        *)
(***************************************************************************)
C10_AsStated == rdPc = "ret" => rdLevels \in rxAccepted

(***************************************************************************)
(* C10 (amended): each field of the tuple get_levels() returns is that     *)
(* field of some received frame or the initial 0.0, and the tuple is one   *)
(* single frame's whenever the receive loop stores no frame during the     *)
(* call; a call that overlaps the loop's stores can return fields of two   *)
(* different frames.                                                       *)
(***************************************************************************)
C10_FieldsFromFrames ==
    rdPc = "ret" =>
        /\ \A i \in 1..3 : \E t \in rxAccepted : rdLevels[i] = t[i]
        /\ (rdQuiet => rdLevels \in rxAccepted)

\* A call that overlapped the stores of a frame and returned a mix.
C10_Witness ==
    /\ rdPc = "ret"
    /\ ~rdQuiet
    /\ rdLevels \notin rxAccepted

\* The number of bins the header of a payload of at least 6 bytes declares.
DeclaredBins(data) == data[5] + 256 * data[6]

\* A payload shorter than the header, or shorter than 6 + 4N for the N its
\* header declares.
ShortSpectrumFrame(data) ==
    \/ Len(data) < 6
    \/ Len(data) < 6 + 4 * DeclaredBins(data)

(***************************************************************************)
(* C11: a spectrum datagram shorter than the 6-byte header, or shorter     *)
(* than 6 + 4N bytes for the N its header declares, changes none of seq,   *)
(* size, bins and last_update: the loop stores nothing of it and is back   *)
(* at recvfrom, and get_bins() returns what it returned before.            *)
(***************************************************************************)
C11_ShortFrameDropped ==
    (spCount > 0 /\ ShortSpectrumFrame(spData.data)) =>
        /\ spectrumReceiver = spBefore
        /\ spPc \in {"recv", "stopped"}

\* A short frame from the server (13 bytes, two bins declared) arrived
\* after a frame that was applied.
C11_Witness ==
    /\ spCount >= 2
    /\ spData.src = SpectrumServerIp
    /\ Len(spData.data) = 13
    /\ DeclaredBins(spData.data) = 2
    /\ has_data
    /\ Len(get_bins) > 0
    /\ spPc = "recv"

(***************************************************************************)
(* C12: a datagram whose source address is not the configured server's     *)
(* changes none of seq, size, bins and last_update, whatever its content:  *)
(* get_bins(), seq and has_data() are those of the server's datagrams.     *)
(***************************************************************************)
C12_OtherSourceDropped ==
    /\ (spCount > 0 /\ spData.src # SpectrumServerIp) =>
          /\ spectrumReceiver = spBefore
          /\ spPc \in {"recv", "stopped"}
    /\ \A d \in spAccepted : d.src = SpectrumServerIp
    /\ (has_data => spAccepted # {})

\* A well-formed frame from another address arrived after a frame of the
\* server was applied, and the bins are still the server's.
C12_Witness ==
    /\ spCount >= 2
    /\ spData.src # SpectrumServerIp
    /\ ~ShortSpectrumFrame(spData.data)
    /\ DeclaredBins(spData.data) = 2
    /\ has_data
    /\ Len(get_bins) = 1
    /\ spPc = "recv"

(***************************************************************************)
(* C13 (as stated): while the channel is running, no content of a received *)
(* datagram ends the receive loop.  Stated for the spectrum receive loop.  *)
(***************************************************************************)
C13_AsStated == spRunning => spPc # "ended"

\* The payload is an announcement: a JSON object whose "service" is
\* peppy_level_server.
ValidAnnouncement(payload) ==
    /\ payload.kind = "object"
    /\ "service" \in DOMAIN payload.obj
    /\ payload.obj["service"] = "peppy_level_server"

(***************************************************************************)
(* C14: the map of discover() is keyed by source address and has exactly   *)
(* one entry for each source whose announcement the scan received: the     *)
(* entry of a source is made by its first announcement, and a later        *)
(* announcement of that source, whatever hostname it carries, adds no      *)
(* entry, removes none and leaves the entry's address and hostname.        *)
(***************************************************************************)
C14_OneEntryPerSource ==
    /\ [](/\ DOMAIN servers = dsAnnounced
          /\ \A ip \in DOMAIN servers : servers[ip].ip = ip)
    /\ [][\A ip \in DOMAIN servers :
              /\ ip \in DOMAIN servers'
              /\ servers'[ip].ip = servers[ip].ip
              /\ servers'[ip].hostname = servers[ip].hostname]_vars

\* discover() returned two entries after three announcements: the last
\* one came from a source already in the map, under another hostname.
C14_Witness ==
    /\ dsPc = "returned"
    /\ dsCount = 3
    /\ DOMAIN servers = DiscoveryIps
    /\ DOMAIN dsBefore = DiscoveryIps
    /\ ValidAnnouncement(dsData.payload)
    /\ "hostname" \in DOMAIN dsData.payload.obj
    /\ dsData.payload.obj["hostname"] # servers[dsData.src].hostname

(***************************************************************************)
(* C15 (as stated): a datagram that is not an announcement (not JSON, or   *)
(* JSON without the service peppy_level_server) leaves the map as it is    *)
(* and does not end the scan: the loop of discover() is left only when the *)
(* deadline has passed or stop() was called.                               *)
(***************************************************************************)
C15_AsStated ==
    /\ (dsCount > 0 /\ ~ValidAnnouncement(dsData.payload)) => servers = dsBefore
    /\ dsPc \in {"close", "returned"} => dsEnd \in {"deadline", "stop"}

\* The announcement the listener is processing.
WatchedInfo == InfoOf(wData.payload)

(***************************************************************************)
(* C16 (as stated): for every announcement the config watcher processes,   *)
(* if its config_version differs from the belief's version then            *)
(* reload_requested is true after the watcher's version check.             *)
(***************************************************************************)
C16_AsStated ==
    [][(wPc = "version" /\ wPc' # wPc
        /\ WatchedInfo.config_version # current_version_holder.version)
         => reload_requested']_vars

(***************************************************************************)
(* C16 (amended): for every announcement the config watcher processes, if  *)
(* its config_version is present, not empty, and differs from the belief's *)
(* version, then reload_requested is true after the watcher's version      *)
(* check; an announcement without a config_version, or with an empty one,  *)
(* leaves reload_requested to the active-meter check.                      *)
(***************************************************************************)
C16_VersionRaisesFlag ==
    /\ [][(wPc = "version" /\ wPc' # wPc
           /\ WatchedInfo.config_version # ""
           /\ WatchedInfo.config_version # current_version_holder.version)
            => reload_requested']_vars
    /\ [][(wPc = "version" /\ wPc' # wPc /\ WatchedInfo.config_version = "")
            => reload_requested' = reload_requested]_vars

\* The version check raised the flag: the announcement has v2 and the
\* belief's active meter, the belief has v1.
C16_Witness ==
    /\ wPc = "meter"
    /\ reload_requested
    /\ wCount = 1
    /\ WatchedInfo.config_version = "v2"
    /\ current_version_holder.version = "v1"
    /\ WatchedInfo.active_meter = current_version_holder.active_meter

(***************************************************************************)
(* C17 (as stated): the config watcher stores an announced active_meter as *)
(* the candidate only when it is present and differs from the belief's     *)
(* active meter, and raises reload_requested only on a changed version or  *)
(* a changed active meter: an announcement equal to the belief in both     *)
(* leaves reload_requested and the candidate as they are.                  *)
(***************************************************************************)
C17_AsStated ==
    /\ [][(wPc' # wPc /\ new_active_meter' # new_active_meter)
            => MeterChanged(WatchedInfo, current_version_holder)]_vars
    /\ [][(wPc' # wPc /\ reload_requested' # reload_requested)
            => \/ VersionChanged(WatchedInfo, current_version_holder)
               \/ MeterChanged(WatchedInfo, current_version_holder)]_vars

(***************************************************************************)
(* C18: first_announcement_received is false until the listener processes  *)
(* the first announcement of the server, true from then on, and no later   *)
(* datagram and no store of the render thread sets it back to false.       *)
(***************************************************************************)
C18_FirstAnnouncementLatch ==
    /\ [](first_announcement_received <=> wAnnouncements > 0)
    /\ [][first_announcement_received => first_announcement_received']_vars

\* After the first announcement a datagram that is no announcement of the
\* server was received, and the render thread has cleared the flag and the
\* candidate.
C18_Witness ==
    /\ first_announcement_received
    /\ wCount = 2
    /\ wAnnouncements = 1
    /\ wPc = "loop"
    /\ ~reload_requested
    /\ new_active_meter = ""

(***************************************************************************)
(* C19 (as stated): once stop_listener() was called, at whatever point of  *)
(* run(), no exception leaves run() or stop_listener(), and run() ends     *)
(* with its socket closed.                                                 *)
(***************************************************************************)
C19_AsStated ==
    listener_stop =>
        /\ wRaised = "none"
        /\ stRaised = "none"
        /\ (wPc = "done" => ~wSockOpen)

\* The obj of an object has the key with the value TRUE.
FlagTrue(value, key) ==
    /\ value.kind = "object"
    /\ key \in DOMAIN value.obj
    /\ value.obj[key] = TRUE

\* The HTTP call succeeded, the body is a JSON object, and the outer and
\* the inner success flags are both true.
EnvelopeOk(response) ==
    /\ response.transport = "ok"
    /\ FlagTrue(response.body, "success")
    /\ "data" \in DOMAIN response.body.obj
    /\ FlagTrue(response.body.obj["data"], "success")

\* The inner object has a persist_duration that int() rejects.
BadPersistDuration(response) ==
    LET inner == response.body.obj["data"].obj
    IN  /\ "persist_duration" \in DOMAIN inner
        /\ inner["persist_duration"].t = "str"
        /\ inner["persist_duration"].s \notin {"", "45"}

(***************************************************************************)
(* C20 (as stated): fetch() returns ok = True exactly when the HTTP call   *)
(* succeeded, the body parsed as JSON and the outer and the inner success  *)
(* flags are both true; every other outcome returns (False, None, None).   *)
(***************************************************************************)
C20_AsStated ==
    ftCount > 0 =>
        /\ fetcher.ret.ok <=> EnvelopeOk(ftResponse)
        /\ ~fetcher.ret.ok => fetcher.ret = FetchFailure

(***************************************************************************)
(* C20 (amended): fetch() returns ok = True exactly when the HTTP call     *)
(* succeeded, the body parsed as a JSON object, the outer and the inner    *)
(* success flags are both true, and the inner persist_duration, when it is *)
(* there, converts to an integer; it then returns the inner config and     *)
(* version ('' for one that is missing).  Every other outcome, a           *)
(* persist_duration that does not convert included, returns (False, None,  *)
(* None).                                                                  *)
(***************************************************************************)
C20_FetchEnvelope ==
    ftCount > 0 =>
        /\ fetcher.ret.ok <=>
              (EnvelopeOk(ftResponse) /\ ~BadPersistDuration(ftResponse))
        /\ ~fetcher.ret.ok => fetcher.ret = FetchFailure
        /\ fetcher.ret.ok =>
              LET inner == ftResponse.body.obj["data"].obj
              IN  /\ fetcher.ret.config =
                        IF "config" \in DOMAIN inner THEN inner["config"] ELSE ""
                  /\ fetcher.ret.version =
                        IF "version" \in DOMAIN inner THEN inner["version"]
                        ELSE ""

\* A successful call whose persist_duration was the string "45", after a
\* call that failed on an inner success flag that was false.
C20_Witness ==
    /\ ftCount = 2
    /\ fetcher.ret = [ok |-> TRUE, config |-> "cfgA", version |-> "v2"]
    /\ fetcher.persist_duration = 45
    /\ ftBefore.ret = FetchFailure
    /\ ftBefore.cached_version = ""

(***************************************************************************)
(* The smoother.                                                           *)
(***************************************************************************)
Ticked == smPc = "started" /\ smFrames # <<>>
Scaled(bins) == [i \in 1..NumBars |-> IF i <= Len(bins) THEN bins[i] * Scale ELSE 0]
AllZero(local) == \A i \in DOMAIN local : local[i] = 0
BurstFrame == <<80, 80, 81>>
NextFrame == <<10, 60, 5>>
AfterBurstFromZero == Ticked /\ smBins = BurstFrame /\ AllZero(smBefore.local_bins)
AfterNextFromZero ==
    /\ Ticked /\ smBins = NextFrame
    /\ smBefore.prev_server_bins = BurstFrame
    /\ AllZero(smBefore.local_bins)

\* C21 as stated: from bars at 0 the frame [80,80,81] leaves every bar at 0,
\* and a following frame [10,60,5] raises bar 1 to 60 and leaves the other
\* bars at their decayed value.
C21_AsStated ==
    /\ AfterBurstFromZero => AllZero(smoother.local_bins)
    /\ AfterNextFromZero =>
        \A i \in 1..NumBars :
            smoother.local_bins[i] =
                IF i = 2 THEN 60 * Scale
                ELSE Decay(smBefore.local_bins[i], smoother.decay_rate)

\* C21 amended: from bars at 0 the frame [80,80,81] leaves every bar at 0,
\* and a following frame [10,60,5] raises the three bars to 10, 60 and 5.
C21_BurstThenFrame ==
    /\ AfterBurstFromZero => AllZero(smoother.local_bins)
    /\ AfterNextFromZero => smoother.local_bins = Scaled(NextFrame)

C21_Witness ==
    /\ AfterNextFromZero
    /\ smoother.local_bins[2] = 60 * Scale
    /\ Len(smFrames) >= 2

\* The spec's burst test and change test, over the frames the ticks read.
SpecBurst(bins) ==
    /\ bins # <<>>
    /\ MaxOf(bins) > 50
    /\ \A i \in DOMAIN bins : Abs(bins[i] - MaxOf(bins)) <= 2
RECURSIVE LastFrame(_)
LastFrame(frames) ==
    IF frames = <<>> THEN <<>>
    ELSE IF frames[Len(frames)] # <<>> THEN frames[Len(frames)]
    ELSE LastFrame(SubSeq(frames, 1, Len(frames) - 1))
PreviousRaw == LastFrame(SubSeq(smFrames, 1, Len(smFrames) - 1))
MateriallyChanged ==
    /\ smBins # <<>>
    /\ \/ PreviousRaw = <<>>
       \/ \E i \in DOMAIN smBins \cap DOMAIN PreviousRaw :
              Abs(smBins[i] - PreviousRaw[i]) > 1
Max2(a, b) == IF a < b THEN b ELSE a
DecayedBar(i) == Decay(smBefore.local_bins[i], smoother.decay_rate)

\* C22 as stated: in every tick each bar ends at max(decayed local, server
\* value) when the frame is materially changed and not discarded, and at
\* the decayed local value otherwise.
C22_AsStated ==
    Ticked =>
        \A i \in 1..NumBars :
            smoother.local_bins[i] =
                IF MateriallyChanged /\ ~SpecBurst(smBins) /\ i <= Len(smBins)
                THEN Max2(DecayedBar(i), smBins[i] * Scale)
                ELSE DecayedBar(i)

\* C23 as stated: on a tick whose frame is a burst no bar rises and each
\* bar gets exactly one decay step.
C23_AsStated ==
    (Ticked /\ SpecBurst(smBins)) =>
        \A i \in 1..NumBars : smoother.local_bins[i] = DecayedBar(i)

\* C24: the tick's server_data_changed is true exactly when the frame is
\* the first one seen or some bin differs from the previous raw frame's by
\* more than 1, and a frame that is not materially changed raises no bar.
C24_MateriallyChanged ==
    (Ticked /\ smBins # <<>>) =>
        /\ smChanged <=> MateriallyChanged
        /\ ~MateriallyChanged =>
            \A i \in 1..NumBars :
                smoother.local_bins[i] <= smBefore.local_bins[i]

C24_Witness ==
    /\ Ticked /\ Len(smFrames) >= 2
    /\ smBins = <<11, 61, 6>> /\ PreviousRaw = NextFrame
    /\ ~smChanged
    /\ smoother.local_bins[2] < 60 * Scale
    /\ smoother.local_bins[2] > 0

\* C25: whatever decay rate is configured, the rate the smoother uses is
\* max(0.50, min(0.99, configured)), and lies in [0.50, 0.99].
C25_DecayRateClamped ==
    smPc # "none" =>
        /\ smoother.decay_rate \in 50..99
        /\ ~smConfigured.nan =>
            smoother.decay_rate = Max2(50, Min2(99, smConfigured.v))

C25_Witness ==
    /\ smPc = "started" /\ smConfigured = Num(0) /\ smoother.decay_rate = 50
    /\ Ticked

(***************************************************************************)
(* The persist mirror.  A call has returned when psPc is back at "idle";   *)
(* psBefore and psAfter are the state when it began and when it returned.  *)
(***************************************************************************)
StatusCallReturned ==
    /\ psPc = "idle"
    /\ psCall.op \in {"same", "volatile", "play", "countdown", "remove", "other"}
StatusChanged == psCall.status # psBefore.persist._last_status
Pending(timers) == {id \in DOMAIN timers : timers[id].state \in {"created", "armed"}}
NewTimers == (DOMAIN psAfter.timers) \ (DOMAIN psBefore.timers)

\* C26 as stated: every status change to 'play' leaves no expiry timer
\* pending, the signal file deleted and lastStatus = play.
C26_AsStated ==
    (StatusCallReturned /\ StatusChanged /\ psCall.status = "play") =>
        /\ Pending(psAfter.timers) = {}
        /\ psAfter.file = NoFile
        /\ psAfter.persist._last_status = "play"

\* C27 as stated: a non-volatile change from play to pause or stop writes
\* the file with (duration, timestamp, mode) and arms exactly one timer of
\* that duration when persistDuration > 0, deletes the file and arms no timer
\* when it is 0; a change to pause or stop from another status writes no
\* file and arms no timer.
C27_AsStated ==
    (/\ StatusCallReturned /\ StatusChanged
     /\ psCall.status \in {"pause", "stop"} /\ ~psCall.volatile) =>
        IF psBefore.persist._last_status = "play"
        THEN IF psBefore.persist.persist_duration > 0
             THEN /\ psAfter.file =
                        <<[duration |-> psBefore.persist.persist_duration,
                           timestamp |-> psCount,
                           display |-> psBefore.persist.persist_display]>>
                  /\ Cardinality(NewTimers) = 1
                  /\ \A id \in NewTimers :
                        /\ psAfter.timers[id].state = "armed"
                        /\ psAfter.timers[id].interval =
                               psBefore.persist.persist_duration
             ELSE psAfter.file = NoFile /\ NewTimers = {}
        ELSE /\ NewTimers = {}
             /\ psAfter.file \in {NoFile, psBefore.file}

\* C28: a volatile update whose status is stop or pause changes neither
\* lastStatus nor the file nor a timer, and a non-volatile stop or pause
\* with lastStatus = play is handled as the transition from play.
C28_VolatileIgnored ==
    /\ (StatusCallReturned /\ psCall.volatile
        /\ psCall.status \in {"pause", "stop"}) => psAfter = psBefore
    /\ (/\ psCall.op \in {"same", "volatile", "play", "countdown", "remove",
                          "other"}
        /\ ~psCall.volatile /\ psCall.status \in {"pause", "stop"}
        /\ psBefore.persist._last_status = "play") =>
            psCall.op \in {"countdown", "remove"}

C28_Witness ==
    /\ StatusCallReturned /\ psCall.op = "volatile"
    /\ psBefore.persist._last_status = "play"
    /\ psBefore.persist.persist_duration > 0
    /\ persist._last_status = "play"

\* C29: update_settings changes the stored duration and display mode and
\* nothing else: not the timer reference, not a timer, not the file, not
\* lastStatus.
C29_SettingsOnly ==
    psCall.op = "settings" =>
        /\ psAfter.file = psBefore.file
        /\ psAfter.timers = psBefore.timers
        /\ psAfter.persist._persist_timer = psBefore.persist._persist_timer
        /\ psAfter.persist._last_status = psBefore.persist._last_status
        /\ psAfter.persist.persist_duration \in Durations
        /\ psAfter.persist.persist_display \in {"freeze", "countdown"}

C29_Witness ==
    /\ psCall.op = "settings"
    /\ psBefore.persist._persist_timer # NoTimer
    /\ psAfter.timers[psBefore.persist._persist_timer].state = "armed"
    /\ psAfter.file # NoFile
    /\ psAfter.persist.persist_duration # psBefore.persist.persist_duration
    /\ psAfter.persist.persist_duration # psAfter.file[1].duration

(***************************************************************************)
(* The lifetime of the level receiver.                                     *)
(***************************************************************************)
LoopsStarted == lcHb # "none" \/ lcRx # "none"

\* C30: start() sends register right after the bind and before either loop
\* starts, so register is the first datagram sent; when the bind fails no
\* register is sent and neither loop is started.
C30_RegisterFirst ==
    /\ lcSent # <<>> => lcSent[1] = "register"
    /\ LoopsStarted => (lcSent # <<>> /\ receiver.sock \in {"bound", "closed"})
    /\ lcStart \in {"hb_thread", "rx_thread", "done"} => lcSent # <<>>
    /\ lcStart = "raised" =>
        /\ lcSent = <<>>
        /\ ~LoopsStarted
        /\ receiver._thread = "None" /\ receiver._heartbeat_thread = "None"
        /\ ~receiver._running

C30_Witness ==
    /\ lcStart = "done"
    /\ Len(lcSent) >= 2 /\ lcSent[1] = "register" /\ lcSent[2] = "heartbeat"
    /\ lcRx = "recv"

C33_AsStated ==
    /\ lcSent # <<>> => lcSent[1] = "register"
    /\ \A i \in DOMAIN lcSent : i > 1 => lcSent[i] # "register"
    /\ Cardinality({i \in DOMAIN lcSent : lcSent[i] = "unregister"}) <= 1
    /\ \A i, j \in DOMAIN lcSent :
        (lcSent[i] = "unregister" /\ i < j) => lcSent[j] # "heartbeat"

(***************************************************************************)
(* The persist mirror against its timers.                                  *)
(***************************************************************************)
Live(timers) ==
    {id \in DOMAIN timers : timers[id].state \in {"armed", "fired", "removed"}}
FileDeleted == psFile # NoFile /\ psFile' = NoFile
DeletedByRenderThread ==
    psPc = "file" /\ psPc' # "file" /\ psCall.op \in {"play", "cleanup"}
DeletedByOwnTimer ==
    \E id \in DOMAIN psTimers :
        /\ psTimers[id].state = "fired" /\ psTimers'[id].state = "removed"
        /\ psTimers[id].born = psFile[1].timestamp
ClearedByCallback ==
    \E id \in DOMAIN psTimers :
        /\ psTimers[id].state = "removed" /\ psTimers'[id].state = "done"
        /\ persist._persist_timer \notin {NoTimer, id}

\* C34 as stated: the file a transition wrote is deleted only by that
\* transition's own timer, by a change to play or by cleanup(); a callback
\* never clears the reference to another timer; at most one timer is live.
C34_AsStated ==
    /\ [][(FileDeleted => (DeletedByRenderThread \/ DeletedByOwnTimer))
          /\ ~ClearedByCallback]_vars
    /\ [](Cardinality(Live(psTimers)) <= 1)

\* C37 as stated: between two calls, lastStatus = play means the file is
\* absent and no pending timer is referenced, and the file exists only
\* while lastStatus is pause or stop.
C37_AsStated ==
    psPc = "idle" =>
        /\ persist._last_status = "play" =>
            /\ psFile = NoFile
            /\ persist._persist_timer \notin Pending(psTimers)
        /\ psFile # NoFile => persist._last_status \in {"pause", "stop"}

\* C36 as stated: a fetch() that returns failure leaves cached_config,
\* cached_version, persist_duration and persist_display as they were.
C36_AsStated ==
    (ftCount > 0 /\ ~fetcher.ret.ok) =>
        /\ fetcher.cached_config = ftBefore.cached_config
        /\ fetcher.cached_version = ftBefore.cached_version
        /\ fetcher.persist_duration = ftBefore.persist_duration
        /\ fetcher.persist_display = ftBefore.persist_display

(***************************************************************************)
(* The reconciliation over time.                                           *)
(***************************************************************************)
\* What the server's config and announced active meter resolve to for this
\* client.
ServerSelection ==
    parse_server_meter_state(srv.blob, Templates, srv.active, client_override)

InDisplay == pc \in {"display", "cb_fetch", "cb_belief"}

\* The display runs a selection that is not the server's.
Differs ==
    /\ InDisplay
    /\ srv.blob.kind = "ok"
    /\ ~SameSelection(ServerSelection, pm)

FetchesSucceed == [](lastFetch # "fail")

\* C32 as stated: with announcements repeating and fetches succeeding, while
\* the display runs a selection that differs from the server's resolved
\* (folder, meter), the callback eventually returns "reload required"; a
\* signal raised again around a no-reload verdict is never answered with the
\* memoized "no reload".
C32_AsStated ==
    /\ FetchesSucceed => (Differs ~> (engine = "reload" \/ ~Differs))
    /\ [](lastPoll # "memo_false")

\* The last verdict was "no reload", the request is cleared, and what the
\* server announces is what that verdict was computed from: the fetched
\* version and the candidate meter.
VerdictStands ==
    /\ pc = "display" /\ engine = "noreload" /\ ~reload_requested
    /\ current_version_holder.version = srv.version
    /\ active_meter_override = srv.active

\* C35 as stated: after a no-reload verdict, while the server announces the
\* same version and active meter and its config does not change, the
\* request is not raised again (so that no further fetch is issued),
\* whatever the announced meter and the client override.
C35_AsStated ==
    [][(VerdictStands /\ srv' = srv) => ~reload_requested']_vars

====
